---- MODULE Spec2Model ----
(***************************************************************************)
(* Verification model of rfcxml-mcp: requirement-keyword scanning, the     *)
(* plain-text section parser, requirement extraction, statement conflict   *)
(* detection and the getParsedRFC service with its XML -> text fallback.   *)
(*                                                                         *)
(* Texts are TLA+ strings; a JavaScript index i (0-based) is the character *)
(* SubSeq(s, i + 1, i + 1).                                                *)
(***************************************************************************)
EXTENDS Integers, Sequences, FiniteSets, TLC

VARIABLES
    scanText,       \* the text handed to a requirement scan
    scanOut,        \* result of the scan: [by, markers, level]
    regexLastIndex, \* lastIndex of the shared REQUIREMENT_REGEX object
    doc,            \* plain-text document: sequence of lines
    parsed,         \* result of parseRFCText's section extraction
    rfcSections,          \* Section[] handed to requirement extraction
    extOut,         \* result of the last extraction call: [by, filter, reqs, call]
    stmtIn,         \* statement handed to the statement matcher
    reqsIn,         \* Requirement[] handed to the statement matcher
    matchOut,       \* result of the last statement-matcher call
    parseCache,     \* rfc-service parseCache: entries oldest first
    xmlCache,       \* rfc-fetcher xmlCache
    textCache,      \* rfc-fetcher textCache
    calls,          \* the getParsedRFC calls in progress, by caller
    fetchStarted,   \* history: network fetches started since clearCache()
    returned,       \* history: results returned since clearParseCache(), by RFC
    toolIn,         \* arguments of a parser, checklist or handler call
    toolOut,        \* what that call returned
    lru,            \* an LRUCache instance: [maxSize, cache]
    lruOp,          \* the last operation on it and what it returned
    lruUsed,        \* history: its keys by last successful get or set, latest last
    fetchSources,   \* fetchFromMultipleSources: the source names, in order
    fetchPromises,  \* the per-source promises: [at, timer, ...]
    anyPromise,     \* Promise.any(fetchPromises)
    signalAborted,  \* controller.signal.aborted
    fetchCall,      \* the promise the call returned: [state, ...]
    timeoutElapsed  \* the sources whose timeout period has passed

scanVars == <<scanText, scanOut, regexLastIndex>>
textVars == <<doc, parsed>>
extVars == <<rfcSections, extOut>>
matchVars == <<stmtIn, reqsIn, matchOut>>
serviceVars ==
    <<parseCache, xmlCache, textCache, calls, fetchStarted, returned>>
toolVars == <<toolIn, toolOut>>
lruVars == <<lru, lruOp, lruUsed>>
fetchVars ==
    <<fetchSources, fetchPromises, anyPromise, signalAborted, fetchCall,
      timeoutElapsed>>
vars ==
    <<scanVars, textVars, extVars, matchVars, serviceVars, toolVars, lruVars, fetchVars>>

NoResult == [by |-> "none"]

\* the parts of the state a specification does not use stay at rest
ScanIdle == scanText = "" /\ scanOut = NoResult /\ regexLastIndex = 0
TextIdle == doc = <<>> /\ parsed = NoResult
ExtIdle == rfcSections = <<>> /\ extOut = NoResult
MatchIdle == stmtIn = "" /\ reqsIn = <<>> /\ matchOut = NoResult
ServiceIdle ==
    /\ parseCache = <<>> /\ xmlCache = <<>> /\ textCache = <<>> /\ calls = <<>>
    /\ fetchStarted = {} /\ returned = <<>>
ToolIdle == toolIn = NoResult /\ toolOut = NoResult
LruIdle == lru = NoResult /\ lruOp = NoResult /\ lruUsed = <<>>
FetchIdle ==
    /\ fetchSources = <<>> /\ fetchPromises = <<>> /\ anyPromise = NoResult
    /\ signalAborted = FALSE /\ fetchCall = NoResult /\ timeoutElapsed = {}

-----------------------------------------------------------------------------
(* Bounds of the model.                                                    *)

MaxFrags == 3
MaxLines == 3
MaxBlocks == 1
MaxReqs == 2
MaxCalls == 2
MaxExtractCalls == 2
MaxCacheSize == 2
MaxSources == 2
MaxSections == 4

-----------------------------------------------------------------------------
(* JavaScript string primitives.                                           *)

UpperChars == "ABCDEFGHIJKLMNOPQRSTUVWXYZ"
LowerChars == "abcdefghijklmnopqrstuvwxyz"
DigitChars == "0123456789"

\* s[i] for a 0-based index; "" when out of range (JS: undefined)
CharAt(s, i) == IF i >= 0 /\ i < Len(s) THEN SubSeq(s, i + 1, i + 1) ELSE ""

CharsOf(set) == {SubSeq(set, k, k) : k \in 1..Len(set)}
UpperSet == CharsOf(UpperChars)
LowerSet == CharsOf(LowerChars)
DigitSet == CharsOf(DigitChars)
WordSet == UpperSet \cup LowerSet \cup DigitSet \cup {"_"}
SpaceSet == {" ", "\n", "\t", "\r"}

IsUpper(c) == c \in UpperSet
IsLower(c) == c \in LowerSet
IsDigit(c) == c \in DigitSet
\* \w
IsWordChar(c) == c \in WordSet
\* \s
IsSpace(c) == c \in SpaceSet

\* s.substring(a, b) for 0 <= a, b (clamped, swapped like JS)
Substring(s, a, b) ==
    LET lo0 == IF a < b THEN a ELSE b
        hi0 == IF a < b THEN b ELSE a
        lo == IF lo0 > Len(s) THEN Len(s) ELSE lo0
        hi == IF hi0 > Len(s) THEN Len(s) ELSE hi0
    IN SubSeq(s, lo + 1, hi)

\* whether k occurs in s at 0-based index i
OccursAt(s, k, i) ==
    /\ i >= 0
    /\ i + Len(k) <= Len(s)
    /\ SubSeq(s, i + 1, i + Len(k)) = k

\* s.indexOf(k): the least index, -1 when absent
IndexOf(s, k) ==
    LET hits == {i \in 0..(Len(s) - Len(k)) : OccursAt(s, k, i)}
    IN IF hits = {} THEN -1 ELSE CHOOSE i \in hits : \A j \in hits : i <= j

\* s.includes(k)
Includes(s, k) == \E i \in 0..(Len(s) - Len(k)) : OccursAt(s, k, i)

\* s.startsWith(k)
StartsWith(s, k) == OccursAt(s, k, 0)

LowerOf == [c \in UpperSet |->
              LET k == CHOOSE k \in 1..Len(UpperChars) : SubSeq(UpperChars, k, k) = c
              IN SubSeq(LowerChars, k, k)]
UpperOf == [c \in LowerSet |->
              LET k == CHOOSE k \in 1..Len(LowerChars) : SubSeq(LowerChars, k, k) = c
              IN SubSeq(UpperChars, k, k)]

RECURSIVE ToLowerCase(_)
ToLowerCase(s) ==
    IF s = "" THEN ""
    ELSE (IF Head(s) \in UpperSet THEN LowerOf[Head(s)] ELSE Head(s))
         \o ToLowerCase(Tail(s))

RECURSIVE ToUpperCase(_)
ToUpperCase(s) ==
    IF s = "" THEN ""
    ELSE (IF Head(s) \in LowerSet THEN UpperOf[Head(s)] ELSE Head(s))
         \o ToUpperCase(Tail(s))

\* s.trim()
Trim(s) ==
    LET keep == {i \in 0..(Len(s) - 1) : ~IsSpace(CharAt(s, i))}
    IN IF keep = {} THEN ""
       ELSE LET lo == CHOOSE i \in keep : \A j \in keep : i <= j
                hi == CHOOSE i \in keep : \A j \in keep : i >= j
            IN Substring(s, lo, hi + 1)

RECURSIVE Concat(_)
Concat(ss) == IF ss = <<>> THEN "" ELSE Head(ss) \o Concat(Tail(ss))

\* all sequences over S of length 0..n
SeqsUpTo(S, n) == UNION {[1..k -> S] : k \in 0..n}

-----------------------------------------------------------------------------
(* Keyword registry (constants.ts).                                        *)

REQUIREMENT_KEYWORDS ==
    << "MUST NOT", "MUST", "REQUIRED", "SHALL NOT", "SHALL", "SHOULD NOT",
       "SHOULD", "RECOMMENDED", "NOT RECOMMENDED", "MAY", "OPTIONAL" >>

\* \b between index i - 1 and index i
WordBoundary(s, i) == IsWordChar(CharAt(s, i - 1)) # IsWordChar(CharAt(s, i))

\* alternative k of \b(k1|k2|...)\b matches at index i
KeywordMatchesAt(s, k, i) ==
    /\ WordBoundary(s, i)
    /\ OccursAt(s, k, i)
    /\ WordBoundary(s, i + Len(k))

\* the alternation tried in this order at index i: the first keyword that
\* matches, "" when none does
AlternationAt(s, keywords, i) ==
    LET ok == {n \in 1..Len(keywords) : KeywordMatchesAt(s, keywords[n], i)}
    IN IF ok = {} THEN ""
       ELSE keywords[CHOOSE n \in ok : \A m \in ok : n <= m]

\* regression of the registry order: the short keyword tried first
ShortFirstKeywords ==
    << "MUST", "MUST NOT", "REQUIRED", "SHALL", "SHALL NOT", "SHOULD",
       "SHOULD NOT", "RECOMMENDED", "NOT RECOMMENDED", "MAY", "OPTIONAL" >>

RegexMatchAtShortFirst(s, i) == AlternationAt(s, ShortFirstKeywords, i)

\* new RegExp(`\\b(${REQUIREMENT_KEYWORDS.join('|')})\\b`, 'g') tried at i
RegexMatchAt(s, i) == AlternationAt(s, REQUIREMENT_KEYWORDS, i)

\* regex.exec(s) with regex.lastIndex = from: [index, level, lastIndex];
\* index -1 is the null result, which resets lastIndex to 0
RegexExec(s, from) ==
    LET hits == {i \in from..(Len(s) - 1) : RegexMatchAt(s, i) # ""}
    IN IF from > Len(s) \/ hits = {}
       THEN [index |-> -1, level |-> "", lastIndex |-> 0]
       ELSE LET i == CHOOSE i \in hits : \A j \in hits : i <= j
                k == RegexMatchAt(s, i)
            IN [index |-> i, level |-> k, lastIndex |-> i + Len(k)]

\* while ((match = regex.exec(text)) !== null) markers.push({level, position})
RECURSIVE ExecLoop(_, _)
ExecLoop(s, from) ==
    LET m == RegexExec(s, from)
    IN IF m.index = -1 THEN <<>>
       ELSE <<[level |-> m.level, position |-> m.index]>>
            \o ExecLoop(s, m.lastIndex)

\* rfc-text-parser.ts createTextBlocks: a fresh regex per paragraph
TextBlockMarkers(trimmed) == ExecLoop(trimmed, 0)

\* rfcxml-parser.ts extractRequirementMarkers: the shared REQUIREMENT_REGEX,
\* which resumes at its lastIndex; the loop ends on null, lastIndex 0
ExtractRequirementMarkers(text, lastIndex) == ExecLoop(text, lastIndex)

\* statement-matcher extractRequirementLevel: first match of the upper-cased
\* text, "" for null
ExtractRequirementLevel(text) == RegexExec(ToUpperCase(text), 0).level

-----------------------------------------------------------------------------
(* Plain-text parser: section segmentation (rfc-text-parser.ts).           *)

\* the index of the first whitespace of s, Len(s) when there is none
FirstSpace(s) ==
    LET sp == {i \in 0..(Len(s) - 1) : IsSpace(CharAt(s, i))}
    IN IF sp = {} THEN Len(s) ELSE CHOOSE i \in sp : \A j \in sp : i <= j

\* \d+(?:\.\d+)*\.?  matches the whole of t
IsDottedNumber(t) ==
    /\ Len(t) > 0
    /\ IsDigit(CharAt(t, 0))
    /\ \A i \in 0..(Len(t) - 1) : IsDigit(CharAt(t, i)) \/ CharAt(t, i) = "."
    /\ \A i \in 0..(Len(t) - 2) : ~(CharAt(t, i) = "." /\ CharAt(t, i + 1) = ".")

\* trimmed.match(SECTION_HEADER_PATTERN), /^(\d+(?:\.\d+)*\.?)\s+(.+)$/:
\* [ok, num (match[1]), title (match[2])]
MatchSectionHeader(trimmed) ==
    LET n == FirstSpace(trimmed)
        num == Substring(trimmed, 0, n)
        rest == Substring(trimmed, n, Len(trimmed))
        ns == {i \in 0..(Len(rest) - 1) : ~IsSpace(CharAt(rest, i))}
    IN IF n < Len(trimmed) /\ IsDottedNumber(num) /\ ns # {}
       THEN [ok |-> TRUE, num |-> num,
             title |-> Substring(rest, CHOOSE i \in ns : \A j \in ns : i <= j,
                                 Len(rest))]
       ELSE [ok |-> FALSE, num |-> "", title |-> ""]

\* match[1].replace(/\.$/, '')
StripTrailingDot(num) ==
    IF Len(num) > 0 /\ CharAt(num, Len(num) - 1) = "."
    THEN Substring(num, 0, Len(num) - 1) ELSE num

\* sectionNum.split('.').length
DottedDepth(sectionNum) ==
    1 + Cardinality({i \in 0..(Len(sectionNum) - 1) : CharAt(sectionNum, i) = "."})

DigitValue == [c \in DigitSet |->
                 (CHOOSE k \in 1..10 : SubSeq(DigitChars, k, k) = c) - 1]

\* parseInt(digits, 10) of a string of digits
RECURSIVE ParseInt(_)
ParseInt(ds) ==
    IF ds = "" THEN 0
    ELSE 10 * ParseInt(Substring(ds, 0, Len(ds) - 1))
         + DigitValue[CharAt(ds, Len(ds) - 1)]

\* parseInt(sectionNum.split('.')[0], 10)
FirstNumber(sectionNum) ==
    LET d == IndexOf(sectionNum, ".")
    IN ParseInt(IF d = -1 THEN sectionNum ELSE Substring(sectionNum, 0, d))

MaxHeaderDepth == 5
MaxFirstNumber == 99
MinTitleLength == 3
ShortTitleLength == 20
MinUpperTitleLength == 5

sectionKeywords ==
    { "introduction", "overview", "background", "requirements", "specification",
      "protocol", "format", "security", "considerations", "references",
      "acknowledgments", "appendix", "terminology", "definitions", "abstract",
      "scope", "normative", "informative", "implementation", "examples",
      "error", "status", "codes", "messages", "operations" }

\* regression: the status-code check on the first number is gone
isValidSectionHeaderAnyNumber(sectionNum, title) ==
    LET depth == DottedDepth(sectionNum)
        trimmedTitle == Trim(title)
        lowerTitle == ToLowerCase(trimmedTitle)
    IN IF depth > MaxHeaderDepth THEN FALSE
       ELSE IF Len(trimmedTitle) < MinTitleLength THEN FALSE
       ELSE IF IsLower(CharAt(trimmedTitle, 0)) /\ Len(trimmedTitle) < ShortTitleLength
            THEN FALSE
       ELSE IF \E kw \in sectionKeywords : Includes(lowerTitle, kw) THEN TRUE
       ELSE IF IsUpper(CharAt(trimmedTitle, 0)) /\ Len(trimmedTitle) >= MinUpperTitleLength
            THEN TRUE
       ELSE depth >= 2

isValidSectionHeader(sectionNum, title) ==
    LET depth == DottedDepth(sectionNum)
        trimmedTitle == Trim(title)
        lowerTitle == ToLowerCase(trimmedTitle)
    IN IF depth > MaxHeaderDepth THEN FALSE
       ELSE IF FirstNumber(sectionNum) > MaxFirstNumber THEN FALSE
       ELSE IF Len(trimmedTitle) < MinTitleLength THEN FALSE
       ELSE IF IsLower(CharAt(trimmedTitle, 0)) /\ Len(trimmedTitle) < ShortTitleLength
            THEN FALSE
       ELSE IF \E kw \in sectionKeywords : Includes(lowerTitle, kw) THEN TRUE
       ELSE IF IsUpper(CharAt(trimmedTitle, 0)) /\ Len(trimmedTitle) >= MinUpperTitleLength
            THEN TRUE
       ELSE depth >= 2

\* lines.join('\n')
RECURSIVE JoinLines(_)
JoinLines(ls) ==
    IF ls = <<>> THEN ""
    ELSE IF Len(ls) = 1 THEN ls[1]
    ELSE ls[1] \o "\n" \o JoinLines(Tail(ls))

\* text.split(/\n\s*\n/): the separator starts at the first line break that
\* is followed by white space up to another line break, and ends at the last
\* such line break
RECURSIVE SplitParagraphs(_)
SplitParagraphs(text) ==
    LET ends(i) == {j \in (i + 1)..(Len(text) - 1) :
                       /\ CharAt(text, j) = "\n"
                       /\ \A m \in i..j : IsSpace(CharAt(text, m))}
        starts == {i \in 0..(Len(text) - 1) :
                      CharAt(text, i) = "\n" /\ ends(i) # {}}
    IN IF starts = {} THEN <<text>>
       ELSE LET a == CHOOSE i \in starts : \A j \in starts : i <= j
                b == CHOOSE i \in ends(a) : \A j \in ends(a) : i >= j
            IN <<Substring(text, 0, a)>>
               \o SplitParagraphs(Substring(text, b + 1, Len(text)))

\* createTextBlocks(text): the content of the blocks, one per paragraph that
\* is not blank, trimmed
createTextBlocks(text) ==
    LET paragraphs == SplitParagraphs(text)
    IN SelectSeq([k \in 1..Len(paragraphs) |-> Trim(paragraphs[k])],
                 LAMBDA para : para # "")

\* regression: a candidate line that fails the validation is dropped
RECURSIVE SegmentLinesDropRejected(_, _, _, _, _)
SegmentLinesDropRejected(lines, i, cur, content, done) ==
    LET close == IF cur.open
                 THEN Append(done, [number |-> cur.number, title |-> cur.title,
                                    body |-> JoinLines(content)])
                 ELSE done
    IN IF i > Len(lines) THEN close
       ELSE LET m == MatchSectionHeader(Trim(lines[i]))
                sectionNum == StripTrailingDot(m.num)
            IN IF m.ok /\ isValidSectionHeader(sectionNum, m.title)
               THEN SegmentLinesDropRejected(lines, i + 1,
                                 [open |-> TRUE, number |-> sectionNum,
                                  title |-> m.title], <<>>, close)
               ELSE IF cur.open /\ ~m.ok
               THEN SegmentLinesDropRejected(lines, i + 1, cur,
                                             Append(content, lines[i]), done)
               ELSE SegmentLinesDropRejected(lines, i + 1, cur, content, done)

\* the loop of extractTextSections over lines[i..]: the flat section list.
\* cur is the current section (number "" for null), content its lines so far
RECURSIVE SegmentLines(_, _, _, _, _)
SegmentLines(lines, i, cur, content, done) ==
    LET close == IF cur.open
                 THEN Append(done, [number |-> cur.number, title |-> cur.title,
                                    body |-> JoinLines(content)])
                 ELSE done
    IN IF i > Len(lines) THEN close
       ELSE LET m == MatchSectionHeader(Trim(lines[i]))
                sectionNum == StripTrailingDot(m.num)
            IN IF m.ok /\ isValidSectionHeader(sectionNum, m.title)
               THEN SegmentLines(lines, i + 1,
                                 [open |-> TRUE, number |-> sectionNum,
                                  title |-> m.title], <<>>, close)
               ELSE IF cur.open
               THEN SegmentLines(lines, i + 1, cur, Append(content, lines[i]), done)
               ELSE SegmentLines(lines, i + 1, cur, content, done)

NoSection == [open |-> FALSE, number |-> "", title |-> ""]

\* the sections in document order, each with the blocks of its body
FlatSections(lines) ==
    LET segments == SegmentLines(lines, 1, NoSection, <<>>, <<>>)
    IN [n \in 1..Len(segments) |->
           [number |-> segments[n].number, title |-> segments[n].title,
            body |-> segments[n].body,
            content |-> createTextBlocks(segments[n].body)]]

\* section.number?.split('.').length || 1
SectionDepth(section) ==
    IF section.number = "" THEN 1 ELSE DottedDepth(section.number)

\* regression: a section of the same depth stays on the stack
RECURSIVE PopStackDeeperOnly(_, _)
PopStackDeeperOnly(stack, depth) ==
    IF Len(stack) > 0 /\ stack[Len(stack)].depth > depth
    THEN PopStackDeeperOnly(SubSeq(stack, 1, Len(stack) - 1), depth)
    ELSE stack

\* while (stack.length > 0 && stack[stack.length - 1].depth >= depth) stack.pop()
RECURSIVE PopStack(_, _)
PopStack(stack, depth) ==
    IF Len(stack) > 0 /\ stack[Len(stack)].depth >= depth
    THEN PopStack(SubSeq(stack, 1, Len(stack) - 1), depth)
    ELSE stack

\* organizeSections: sections are referred to by their index in flatSections;
\* the result is the root list and each section's subsections list
RECURSIVE OrganizeFrom(_, _, _, _, _)
OrganizeFrom(flat, i, stack, root, subs) ==
    IF i > Len(flat) THEN [root |-> root, subs |-> subs]
    ELSE LET depth == SectionDepth(flat[i])
             st == PopStack(stack, depth)
             pushed == Append(st, [section |-> i, depth |-> depth])
         IN IF Len(st) = 0
            THEN OrganizeFrom(flat, i + 1, pushed, Append(root, i), subs)
            ELSE OrganizeFrom(flat, i + 1, pushed, root,
                     [subs EXCEPT ![st[Len(st)].section] = Append(@, i)])

organizeSections(flat) ==
    OrganizeFrom(flat, 1, <<>>, <<>>, [n \in 1..Len(flat) |-> <<>>])

\* extractTextSections(lines)
extractTextSections(lines) ==
    LET flat == FlatSections(lines)
        tree == organizeSections(flat)
    IN [by |-> "parseRFCText", flat |-> flat, root |-> tree.root,
        subs |-> tree.subs]

\* DEFINITION_EXTRACTION
MIN_TERM_LENGTH == 2
MIN_DEFINITION_LENGTH == 10

\* [A-Za-z]
IsLetter(c) == IsUpper(c) \/ IsLower(c)

\* trimmed.match(defPattern),
\* /^\s*([A-Za-z][A-Za-z0-9\s-]*[A-Za-z0-9])\s*[-:]\s+(.+)$/:
\* [ok, term (match[1].trim()), definition (match[2].trim())].  The term is
\* greedy, so of the separators that allow a match the last one is taken.
MatchDefinition(trimmed) ==
    LET ns == {i \in 0..(Len(trimmed) - 1) : ~IsSpace(CharAt(trimmed, i))}
        lo == IF ns = {} THEN 0 ELSE CHOOSE i \in ns : \A j \in ns : i <= j
        TermEnd(p) ==
            LET before == {i \in ns : i < p}
            IN IF before = {} THEN -1
               ELSE CHOOSE i \in before : \A j \in before : i >= j
        SplitAt(p) ==
            /\ CharAt(trimmed, p) \in {"-", ":"}
            /\ TermEnd(p) > lo
            /\ IsLetter(CharAt(trimmed, lo))
            /\ IsLetter(CharAt(trimmed, TermEnd(p))) \/ IsDigit(CharAt(trimmed, TermEnd(p)))
            /\ \A i \in (lo + 1)..(TermEnd(p) - 1) :
                   \/ IsLetter(CharAt(trimmed, i))
                   \/ IsDigit(CharAt(trimmed, i))
                   \/ IsSpace(CharAt(trimmed, i))
                   \/ CharAt(trimmed, i) = "-"
            /\ IsSpace(CharAt(trimmed, p + 1))
            /\ p + 2 < Len(trimmed)
            /\ \A i \in (p + 2)..(Len(trimmed) - 1) :
                   CharAt(trimmed, i) \notin {"\n", "\r"}
        splits == {p \in 0..(Len(trimmed) - 1) : SplitAt(p)}
    IN IF splits = {} THEN [ok |-> FALSE, term |-> "", definition |-> ""]
       ELSE LET p == CHOOSE q \in splits : \A r \in splits : q >= r
            IN [ok |-> TRUE,
                term |-> Substring(trimmed, lo, TermEnd(p) + 1),
                definition |-> Trim(Substring(trimmed, p + 1, Len(trimmed)))]

\* currentSection of extractTextDefinitions at each line: the number of the
\* last line before it that matches the section-header pattern
RECURSIVE CurrentSections(_, _, _, _)
CurrentSections(lines, i, currentSection, sections) ==
    IF i > Len(lines) THEN sections
    ELSE LET sectionMatch == MatchSectionHeader(Trim(lines[i]))
         IN CurrentSections(lines, i + 1,
                IF sectionMatch.ok THEN StripTrailingDot(sectionMatch.num)
                ELSE currentSection,
                Append(sections, [header |-> sectionMatch.ok,
                                  currentSection |-> currentSection]))

\* extractTextDefinitions(lines); each definition also records the line it
\* was found on
extractTextDefinitions(lines) ==
    LET sections == CurrentSections(lines, 1, "", <<>>)
        found == [i \in 1..Len(lines) |->
                     LET defMatch == MatchDefinition(Trim(lines[i]))
                     IN [push |-> /\ ~sections[i].header
                                  /\ defMatch.ok
                                  /\ Len(defMatch.term) >= MIN_TERM_LENGTH
                                  /\ Len(defMatch.definition) >= MIN_DEFINITION_LENGTH,
                         term |-> defMatch.term,
                         definition |-> defMatch.definition,
                         section |-> sections[i].currentSection,
                         line |-> i]]
        pushed == SelectSeq(found, LAMBDA f : f.push)
    IN [k \in 1..Len(pushed) |->
           [term |-> pushed[k].term, definition |-> pushed[k].definition,
            section |-> pushed[k].section, line |-> pushed[k].line]]

\* the result of parseRFCText for the lines of the text: sections and definitions
parseTextLines(lines) ==
    extractTextSections(lines) @@ [definitions |-> extractTextDefinitions(lines)]

-----------------------------------------------------------------------------
(* Specification SpecText: parseRFCText on bounded documents.              *)

DocLines ==
    { "1 Introduction", "1.1 Overview", "1.1.1 Details", "2. Protocol",
      "1001 Connection refused", "3 foo", "   The client MUST send.", "",
      "1.2.3.4.5.6 Format", "   404 Not Found" }

Docs == SeqsUpTo(DocLines, MaxLines)

InitText ==
    /\ doc \in Docs
    /\ parsed = NoResult
    /\ ScanIdle
    /\ ExtIdle
    /\ MatchIdle
    /\ ServiceIdle
    /\ ToolIdle
    /\ LruIdle
    /\ FetchIdle

ParseText ==
    /\ parsed = NoResult
    /\ parsed' = parseTextLines(doc)
    /\ UNCHANGED <<doc, scanVars, extVars, matchVars, serviceVars, toolVars, lruVars, fetchVars>>

NextText == ParseText

SpecText == InitText /\ [][NextText]_vars

SeqRange(q) == {q[n] : n \in 1..Len(q)}

\* the section whose subsections list holds n, 0 for a root
ParentOf(p, n) ==
    IF \E m \in 1..Len(p.flat) : n \in SeqRange(p.subs[m])
    THEN CHOOSE m \in 1..Len(p.flat) : n \in SeqRange(p.subs[m])
    ELSE 0

\* nesting depth counted from 1 at the roots
RECURSIVE NestingDepth(_, _)
NestingDepth(p, n) ==
    IF ParentOf(p, n) = 0 THEN 1 ELSE 1 + NestingDepth(p, ParentOf(p, n))

\* C1: in every parse result each section's dotted-number depth equals its
\* nesting depth, for every sequence of accepted headers
C1_DepthEqualsNesting ==
    parsed.by = "parseRFCText" =>
        \A n \in 1..Len(parsed.flat) :
            DottedDepth(parsed.flat[n].number) = NestingDepth(parsed, n)

-----------------------------------------------------------------------------
(* Requirement extraction (utils text.ts extractSentence, the extractor    *)
(* extractRequirementsFromSections and rfcxml-parser.ts extractRequirements). *)

SentenceEnd == {".", "!", "?"}

\* let start = position; while (start > 0 && !/[.!?]\s/.test(
\*     text.substring(start - 1, start + 1))) start--
SentenceStart(text, position) ==
    LET stops == {j \in 0..position :
                    \/ j = 0
                    \/ /\ CharAt(text, j - 1) \in SentenceEnd
                       /\ IsSpace(CharAt(text, j))}
    IN CHOOSE j \in stops : \A k \in stops : j >= k

\* let end = position; while (end < text.length && !/[.!?]/.test(text[end])) end++
SentenceStop(text, position) ==
    LET stops == {j \in position..Len(text) :
                    j = Len(text) \/ CharAt(text, j) \in SentenceEnd}
    IN CHOOSE j \in stops : \A k \in stops : j <= k

\* regression: the sentence is cut at the keyword instead of at its end
extractSentenceCutAtKeyword(text, position) ==
    Trim(Substring(text, SentenceStart(text, position), position + 1))

extractSentence(text, position) ==
    Trim(Substring(text, SentenceStart(text, position),
                   SentenceStop(text, position) + 1))

\* end of the maximal run of characters of class that starts at index i
RECURSIVE RunEnd(_, _, _)
RunEnd(s, i, class) ==
    IF i < Len(s) /\ CharAt(s, i) \in class THEN RunEnd(s, i + 1, class) ELSE i

\* \w+ and \s+ from index i (i itself when the run is empty)
WordEnd(s, i) == RunEnd(s, i, WordSet)
SpaceEnd(s, i) == RunEnd(s, i, SpaceSet)

\* s.substring(i, i + Len(k)) equals k when case is ignored
OccursAtIgnoreCase(s, k, i) ==
    /\ i + Len(k) <= Len(s)
    /\ ToUpperCase(Substring(s, i, i + Len(k))) = ToUpperCase(k)

\* (?:MUST|SHALL|SHOULD|MAY) under the i flag, at index i
ModalAt(s, i) ==
    \E k \in {"MUST", "SHALL", "SHOULD", "MAY"} : OccursAtIgnoreCase(s, k, i)

\* (\w+(?:\s+\w+)?)\s+(?:MUST|SHALL|SHOULD|MAY) tried at index from: the
\* two-word reading first, then the one-word reading; <<>> when neither fits
SubjectFrom(s, from) ==
    LET w1 == WordEnd(s, from)
        sp1 == SpaceEnd(s, w1)
        w2 == WordEnd(s, sp1)
        sp2 == SpaceEnd(s, w2)
    IN IF w1 = from \/ sp1 = w1 THEN <<>>
       ELSE IF w2 > sp1 /\ sp2 > w2 /\ ModalAt(s, sp2)
            THEN <<Substring(s, from, w2)>>
       ELSE IF ModalAt(s, sp1) THEN <<Substring(s, from, w1)>>
       ELSE <<>>

\* text.match(/^(?:The\s+)?(\w+(?:\s+\w+)?)\s+(?:MUST|SHALL|SHOULD|MAY)/i)
SubjectMatch(s) ==
    LET afterThe == SpaceEnd(s, 3)
        withThe == IF OccursAtIgnoreCase(s, "The", 0) /\ afterThe > 3
                   THEN SubjectFrom(s, afterThe) ELSE <<>>
    IN IF withThe # <<>> THEN withThe ELSE SubjectFrom(s, 0)

\* [^,.]+ from index i: the end of the run
RECURSIVE ClauseEnd(_, _)
ClauseEnd(s, i) ==
    IF i < Len(s) /\ CharAt(s, i) \notin {",", "."} THEN ClauseEnd(s, i + 1)
    ELSE i

\* \b(w)\s+([^,.]+) with w one of words, tried at index i: group 2 or <<>>;
\* \s+ is greedy and gives one character back when nothing follows it
ClauseAt(s, words, i) ==
    IF ~WordBoundary(s, i) THEN <<>>
    ELSE LET hits == {w \in words : OccursAtIgnoreCase(s, w, i)}
         IN IF hits = {} THEN <<>>
            ELSE LET e == i + Len(CHOOSE w \in hits : TRUE)
                     sp == SpaceEnd(s, e)
                 IN IF sp = e THEN <<>>
                    ELSE IF ClauseEnd(s, sp) > sp
                         THEN <<Substring(s, sp, ClauseEnd(s, sp))>>
                    ELSE IF sp - e >= 2 THEN <<Substring(s, sp - 1, sp)>>
                    ELSE <<>>

\* text.match(/\b(w1|w2|...)\s+([^,.]+)/i): group 2 of the leftmost match
RECURSIVE ClauseFrom(_, _, _)
ClauseFrom(s, words, i) ==
    IF i > Len(s) THEN <<>>
    ELSE IF ClauseAt(s, words, i) # <<>> THEN ClauseAt(s, words, i)
    ELSE ClauseFrom(s, words, i + 1)

ClauseMatch(s, words) == ClauseFrom(s, words, 0)

LineTerminators == {"\n", "\r"}

\* (.+?)(?:\.|,|$) with the group starting at index g and at least t - g
\* characters long: the group or <<>>
RECURSIVE LazyGroup(_, _, _)
LazyGroup(s, g, t) ==
    IF t > Len(s) \/ CharAt(s, t - 1) \in LineTerminators THEN <<>>
    ELSE IF t = Len(s) \/ CharAt(s, t) \in {".", ","} THEN <<Substring(s, g, t)>>
    ELSE LazyGroup(s, g, t + 1)

\* \s+ ends at g, the latest index first, then gives characters back
RECURSIVE ActionGroup(_, _, _)
ActionGroup(s, e, g) ==
    IF g <= e THEN <<>>
    ELSE IF LazyGroup(s, g, g + 1) # <<>> THEN LazyGroup(s, g, g + 1)
    ELSE ActionGroup(s, e, g - 1)

\* level\s+(.+?)(?:\.|,|$) tried with the keyword at index i
ActionAt(s, level, i) ==
    IF ~OccursAtIgnoreCase(s, level, i) THEN <<>>
    ELSE ActionGroup(s, i + Len(level), SpaceEnd(s, i + Len(level)))

\* text.match(new RegExp(`${level}\\s+(.+?)(?:\\.|,|$)`, 'i'))
RECURSIVE ActionFrom(_, _, _)
ActionFrom(s, level, i) ==
    IF i > Len(s) THEN <<>>
    ELSE IF ActionAt(s, level, i) # <<>> THEN ActionAt(s, level, i)
    ELSE ActionFrom(s, level, i + 1)

ActionMatch(s, level) == ActionFrom(s, level, 0)

TrimEach(m) == IF m = <<>> THEN <<>> ELSE <<Trim(m[1])>>

\* an absent property is <<>>, a present one <<value>>
NoComponents ==
    [subject |-> <<>>, condition |-> <<>>, exception |-> <<>>, action |-> <<>>]

parseRequirementComponents(text, level) ==
    [subject |-> IF SubjectMatch(text) = <<>> THEN <<>>
                 ELSE <<ToLowerCase(SubjectMatch(text)[1])>>,
     condition |-> TrimEach(ClauseMatch(text,
                       {"if", "when", "unless", "where", "in case"})),
     exception |-> TrimEach(ClauseMatch(text, {"unless", "except", "excluding"})),
     action |-> TrimEach(ActionMatch(text, level))]

\* { id, level, text, section, sectionTitle, fullContext, ...components }
NewRequirement(sectionId, idCounter, level, text, title, context, components) ==
    [id |-> "R-" \o sectionId \o "-" \o ToString(idCounter),
     level |-> level, text |-> Trim(text), section |-> sectionId,
     sectionTitle |-> title, fullContext |-> context,
     subject |-> components.subject, condition |-> components.condition,
     exception |-> components.exception, action |-> components.action]

\* the object a push adds: the sentence (a list item whole), its components
\* when asked for, and the fields of NewRequirement
BuildRequirement(push, parseComponents) ==
    LET text == IF push.isList THEN push.content
                ELSE extractSentence(push.content, push.position)
    IN NewRequirement(push.sectionId, push.idCounter, push.level, text,
                      push.title, push.content,
                      IF parseComponents
                      THEN parseRequirementComponents(text, push.level)
                      ELSE NoComponents)

\* the pushes in their order, each turned into the object pushed
BuildRequirements(pushes, parseComponents) ==
    [k \in 1..Len(pushes) |-> BuildRequirement(pushes[k], parseComponents)]

\* for (const marker of ...) { if (filter?.level && marker.level !== filter.level)
\*   continue; requirements.push(...) }
\* fs is [filter, gated, st], st is [requirements, idCounter]; requirements
\* holds what each push was made from
RECURSIVE PushMarkers(_, _, _, _, _, _, _)
PushMarkers(markers, k, content, isList, section, sectionId, fs) ==
    IF k > Len(markers) THEN fs.st
    ELSE LET marker == markers[k]
             skip == fs.filter.level # "" /\ marker.level # fs.filter.level
             st2 == IF skip THEN fs.st
                    ELSE [requirements |->
                              Append(fs.st.requirements,
                                     [sectionId |-> sectionId,
                                      idCounter |-> fs.st.idCounter,
                                      level |-> marker.level,
                                      position |-> marker.position,
                                      title |-> section.title,
                                      content |-> content, isList |-> isList]),
                          idCounter |-> fs.st.idCounter + 1]
         IN PushMarkers(markers, k + 1, content, isList, section, sectionId,
                        [fs EXCEPT !.st = st2])

RECURSIVE PushItems(_, _, _, _, _)
PushItems(items, k, section, sectionId, fs) ==
    IF k > Len(items) THEN fs.st
    ELSE PushItems(items, k + 1, section, sectionId,
             [fs EXCEPT !.st = PushMarkers(items[k].requirements, 1,
                                           items[k].content, TRUE, section,
                                           sectionId, fs)])

\* for (const block of section.content) { text blocks, then list blocks }
RECURSIVE PushBlocks(_, _, _, _, _)
PushBlocks(content, k, section, sectionId, fs) ==
    IF k > Len(content) THEN fs.st
    ELSE LET block == content[k]
             st1 == IF block.type = "text" /\ Len(block.requirements) > 0
                    THEN PushMarkers(block.requirements, 1, block.content, FALSE,
                                     section, sectionId, fs)
                    ELSE fs.st
             st2 == IF block.type = "list"
                    THEN PushItems(block.items, 1, section, sectionId,
                                   [fs EXCEPT !.st = st1])
                    ELSE st1
         IN PushBlocks(content, k + 1, section, sectionId, [fs EXCEPT !.st = st2])

\* section.number || section.anchor || path
SectionId(section, path) ==
    IF section.number # "" THEN section.number
    ELSE IF section.anchor # "" THEN section.anchor ELSE path

\* processSection(section, path); fs.gated says whether the version at hand
\* guards the section's content by shouldProcess
RECURSIVE processSection(_, _, _)
RECURSIVE ProcessSubsections(_, _, _, _)
processSection(section, path, fs) ==
    LET sectionId == SectionId(section, path)
        shouldProcess == fs.filter.section = ""
                         \/ StartsWith(sectionId, fs.filter.section)
        st1 == IF ~fs.gated \/ shouldProcess
               THEN PushBlocks(section.content, 1, section, sectionId, fs)
               ELSE fs.st
    IN ProcessSubsections(section.subsections, 1, sectionId,
                          [fs EXCEPT !.st = st1])

ProcessSubsections(subs, k, sectionId, fs) ==
    IF k > Len(subs) THEN fs.st
    ELSE ProcessSubsections(subs, k + 1, sectionId,
             [fs EXCEPT !.st = processSection(subs[k],
                                   sectionId \o "." \o subs[k].number, fs)])

RECURSIVE ProcessRoots(_, _, _)
ProcessRoots(sections, k, fs) ==
    IF k > Len(sections) THEN fs.st
    ELSE ProcessRoots(sections, k + 1,
             [fs EXCEPT !.st = processSection(sections[k], sections[k].number,
                                              fs)])

\* regression: the counter starts at 0
NoRequirementsFromZero == [requirements |-> <<>>, idCounter |-> 0]

\* const requirements = []; let idCounter = 1
NoRequirements == [requirements |-> <<>>, idCounter |-> 1]

\* the shared extractor: reads filter.section and filter.level only
extractRequirementsFromSections(sections, filter, parseComponents) ==
    BuildRequirements(
        ProcessRoots(sections, 1, [filter |-> filter, gated |-> TRUE,
                                   st |-> NoRequirements]).requirements,
        parseComponents)

\* rfcxml-parser.ts extractRequirements: the section test has an empty body
extractRequirements(sections, filter) ==
    BuildRequirements(
        ProcessRoots(sections, 1, [filter |-> filter, gated |-> FALSE,
                                   st |-> NoRequirements]).requirements,
        TRUE)

\* rfc-text-parser.ts extractTextRequirements
extractTextRequirements(sections, filter) ==
    extractRequirementsFromSections(sections, filter, FALSE)

-----------------------------------------------------------------------------
(* Specification SpecExtract: extraction over bounded section trees.       *)

\* a paragraph as the text parser (createTextBlocks) and the XML parser
\* (createTextBlock, with the shared regex at rest) store it
MakeTextBlock(style, text) ==
    [type |-> "text", content |-> text,
     requirements |-> IF style = "xml" THEN ExtractRequirementMarkers(text, 0)
                      ELSE TextBlockMarkers(text),
     items |-> <<>>]

\* a <ul> of the XML parser
MakeListBlock(texts) ==
    [type |-> "list", content |-> "", requirements |-> <<>>,
     items |-> [k \in 1..Len(texts) |->
                   [content |-> texts[k],
                    requirements |-> ExtractRequirementMarkers(texts[k], 0)]]]

MakeSection(number, anchor, title, content, subsections) ==
    [number |-> number, anchor |-> anchor, title |-> title,
     content |-> content, subsections |-> subsections]

ExtractTexts ==
    { "The client MUST send data.",
      "Intro text. The server SHOULD NOT wait! Done.",
      "It MAY cache? Endpoints MUST NOT close",
      "No keyword here." }

DeepText == "Peers MAY retry, if idle. Hosts MUST reply"

ListTexts == <<"The sender MUST NOT exceed the limit.", "Clients SHALL validate">>

\* the id a parser stores for dotted number n: the text parser the bare
\* number, the XML parser the pn attribute "section-n"
StoredId(style, n) == IF style = "xml" THEN "section-" \o n ELSE n

\* sections 3 > 3.5 > 3.5.1 and a sibling (5 or 30)
MakeTree(style, sibling, first) ==
    << MakeSection(StoredId(style, "3"), "", "Main Section",
           [k \in 1..Len(first) |-> MakeTextBlock(style, first[k])],
           << MakeSection(StoredId(style, "3.5"), "", "Subsection",
                  <<MakeTextBlock(style, "The server SHOULD respond.")>>,
                  << MakeSection(StoredId(style, "3.5.1"), "", "Sub-subsection",
                         <<MakeTextBlock(style, DeepText)>>, <<>>) >>) >>),
       MakeSection(StoredId(style, sibling), "", "Sibling",
           IF style = "xml" THEN <<MakeListBlock(ListTexts)>>
           ELSE <<MakeTextBlock(style, ListTexts[1])>>, <<>>) >>

Trees ==
    { MakeTree(style, sibling, first) :
        style \in {"text", "xml"}, sibling \in {"5", "30"},
        first \in UNION {[1..k -> ExtractTexts] : k \in 1..MaxBlocks} }

FilterIds == {"3", "3.5", "3.5.1", "5", "section-3", "section-3.5", "section-3.5.1"}

\* { section?, sections?, includeSubsections?, level? }; "" and <<>> stand for
\* an absent property, includeSubsections is "default" when absent
Filters ==
    [section : FilterIds \cup {""}, sections : {<<>>},
     includeSubsections : {"default", "false"}, level : {"", "MUST"}]
    \cup
    [section : {""}, sections : {<<"section-3.5", "5">>, <<"3">>},
     includeSubsections : {"default", "false"}, level : {""}]

InitExtract ==
    /\ rfcSections \in Trees
    /\ extOut = NoResult
    /\ ScanIdle
    /\ TextIdle
    /\ MatchIdle
    /\ ServiceIdle
    /\ ToolIdle
    /\ LruIdle
    /\ FetchIdle

\* which call on the parsed document this is
CallNumber == IF extOut = NoResult THEN 1 ELSE extOut.call

\* extractRequirementsFromSections(sections, filter): options default to
\* { parseComponents: true }
ExtractShared(filter) ==
    /\ extOut.by = "none"
    /\ extOut' = [by |-> "extractRequirementsFromSections", filter |-> filter,
                  call |-> CallNumber,
                  reqs |-> extractRequirementsFromSections(rfcSections, filter,
                                                           TRUE)]
    /\ UNCHANGED <<rfcSections, scanVars, textVars, matchVars, serviceVars, toolVars, lruVars, fetchVars>>

\* extractTextRequirements(sections, filter)
ExtractText(filter) ==
    /\ extOut.by = "none"
    /\ extOut' = [by |-> "extractTextRequirements", filter |-> filter,
                  call |-> CallNumber,
                  reqs |-> extractTextRequirements(rfcSections, filter)]
    /\ UNCHANGED <<rfcSections, scanVars, textVars, matchVars, serviceVars, toolVars, lruVars, fetchVars>>

\* handleGetRequirements -> extractRequirements(sections, filter)
ExtractXml(filter) ==
    /\ extOut.by = "none"
    /\ extOut' = [by |-> "extractRequirements", filter |-> filter,
                  call |-> CallNumber,
                  reqs |-> extractRequirements(rfcSections, filter)]
    /\ UNCHANGED <<rfcSections, scanVars, textVars, matchVars, serviceVars, toolVars, lruVars, fetchVars>>

\* the result is handed out and another tool call on the same parsed
\* document follows
ExtractAgain ==
    /\ extOut.by # "none"
    /\ extOut.call < MaxExtractCalls
    /\ extOut' = [by |-> "none", call |-> extOut.call + 1]
    /\ UNCHANGED <<rfcSections, scanVars, textVars, matchVars, serviceVars, toolVars, lruVars, fetchVars>>

NextExtract ==
    \/ \E filter \in Filters :
           ExtractShared(filter) \/ ExtractText(filter) \/ ExtractXml(filter)
    \/ ExtractAgain

SpecExtract == InitExtract /\ [][NextExtract]_vars

\* utils section.ts normalizeSectionNumber: sectionId.replace(/^section-/, '')
normalizeSectionNumber(sectionId) ==
    IF StartsWith(sectionId, "section-")
    THEN Substring(sectionId, 8, Len(sectionId)) ELSE sectionId

\* the other spelling of a filter id: prefixed <-> bare
OtherSpelling(id) ==
    IF StartsWith(id, "section-") THEN normalizeSectionNumber(id)
    ELSE "section-" \o id

ExtractBy(by, secs, filter) ==
    IF by = "extractRequirements" THEN extractRequirements(secs, filter)
    ELSE IF by = "extractTextRequirements"
         THEN extractTextRequirements(secs, filter)
    ELSE extractRequirementsFromSections(secs, filter, TRUE)

\* C3: a filter id with the "section-" prefix and the same id without it
\* return identical requirement lists.
C3_PrefixedEqualsBare ==
    (extOut.by # "none" /\ extOut.filter.section # "") =>
        extOut.reqs = ExtractBy(extOut.by, rfcSections,
                          [extOut.filter EXCEPT !.section = OtherSpelling(@)])

\* every section of the tree with the ids of its ancestors
RECURSIVE Located(_, _, _)
Located(secs, k, ancestors) ==
    IF k > Len(secs) THEN {}
    ELSE LET id == SectionId(secs[k], "")
         IN {[id |-> id, ancestors |-> ancestors]}
            \cup Located(secs[k].subsections, 1, ancestors \cup {id})
            \cup Located(secs, k + 1, ancestors)

RequestedIds(filter) ==
    IF filter.section # "" THEN {normalizeSectionNumber(filter.section)}
    ELSE {normalizeSectionNumber(filter.sections[k]) :
            k \in 1..Len(filter.sections)}

\* the sections a filter selects: the named ones, and their descendants
\* unless includeSubsections is false
SelectedIds(secs, filter) ==
    {l.id : l \in {l \in Located(secs, 1, {}) :
        \/ RequestedIds(filter) = {}
        \/ normalizeSectionNumber(l.id) \in RequestedIds(filter)
        \/ /\ filter.includeSubsections # "false"
           /\ \E a \in l.ancestors :
                normalizeSectionNumber(a) \in RequestedIds(filter)}}

Located3(reqs) ==
    [k \in 1..Len(reqs) |-> <<reqs[k].section, reqs[k].level, reqs[k].text>>]

\* C4: with a section filter the result is exactly the requirements located
\* in the named sections and, unless includeSubsections is false, in their
\* descendants; nothing from any other section.
C4_ExactlySelectedSections ==
    extOut.by # "none" =>
        LET all == ExtractBy(extOut.by, rfcSections,
                       [extOut.filter EXCEPT !.section = "", !.sections = <<>>])
            selected == SelectedIds(rfcSections, extOut.filter)
        IN Located3(extOut.reqs) =
               Located3(SelectSeq(all, LAMBDA r : r.section \in selected))

\* C5: every extracted requirement's text contains the keyword of its level.
C5_TextContainsKeyword ==
    extOut.by # "none" =>
        \A k \in 1..Len(extOut.reqs) :
            Includes(extOut.reqs[k].text, extOut.reqs[k].level)

\* a sentence cut out of a longer paragraph and a list item, both extracted
C5_Witness ==
    /\ extOut.by = "extractRequirements"
    /\ \E k \in 1..Len(extOut.reqs) :
          /\ extOut.reqs[k].text = "The server SHOULD NOT wait!"
          /\ extOut.reqs[k].fullContext # extOut.reqs[k].text
    /\ \E k \in 1..Len(extOut.reqs) :
          /\ extOut.reqs[k].text = "Clients SHALL validate"
          /\ extOut.reqs[k].level = "SHALL"

-----------------------------------------------------------------------------
(* Statement matcher (statement-matcher.ts): subjects, keywords, conflicts. *)

MIN_KEYWORD_LENGTH == 3
MIN_OVERLAP_FOR_CONFLICT == 2
SHORT_STATEMENT_THRESHOLD == 3
REGULAR_TERM == 1
TECHNICAL_TERM == 2
SUBJECT_TERM == 3

TECHNICAL_TERMS ==
    {"client", "server", "sender", "receiver", "endpoint", "connection",
      "request", "response", "message", "packet", "segment", "frame",
      "header", "payload", "handshake", "port", "socket", "stream",
      "timeout", "retransmit", "acknowledgment", "sequence", "congestion",
      "method", "status", "resource", "cache", "proxy", "origin",
      "authentication", "authorization", "certificate", "encryption",
      "signature", "token", "implementation", "specification", "protocol",
      "algorithm", "parameter", "field", "value", "error", "failure",
      "valid", "invalid" }

STOP_WORDS ==
    {"the", "this", "that", "with", "from", "have", "been", "will", "when",
      "where", "what", "which", "there", "their", "they", "them", "than",
      "then", "each", "other", "some", "such", "only", "also", "more",
      "most", "case", "does", "into", "over", "used", "same", "after",
      "before", "about", "being", "could", "would", "should" }

SUBJECT_TERMS ==
    { "client", "server", "sender", "receiver", "endpoint", "implementation",
      "peer", "host", "proxy", "application", "user", "agent" }

\* s.split(/\s+/): the pieces between whitespace runs, empty pieces at the
\* ends included
RECURSIVE Split(_)
Split(s) ==
    LET sp == {i \in 0..(Len(s) - 1) : IsSpace(CharAt(s, i))}
    IN IF sp = {} THEN <<s>>
       ELSE LET a == CHOOSE i \in sp : \A j \in sp : i <= j
            IN <<Substring(s, 0, a)>>
               \o Split(Substring(s, SpaceEnd(s, a), Len(s)))

\* word.replace(/[^...]/g, ''): the characters of word that are in keep
RECURSIVE KeepChars(_, _)
KeepChars(word, keep) ==
    IF word = "" THEN ""
    ELSE (IF CharAt(word, 0) \in keep THEN CharAt(word, 0) ELSE "")
         \o KeepChars(Substring(word, 1, Len(word)), keep)

\* keywords.set(cleaned, (keywords.get(cleaned) || 0) + weight); the map is a
\* sequence of [keyword, weight] in insertion order
MapAdd(keywords, cleaned, weight) ==
    IF \E k \in 1..Len(keywords) : keywords[k].keyword = cleaned
    THEN [k \in 1..Len(keywords) |->
            IF keywords[k].keyword = cleaned
            THEN [keywords[k] EXCEPT !.weight = @ + weight] ELSE keywords[k]]
    ELSE Append(keywords, [keyword |-> cleaned, weight |-> weight])

RECURSIVE KeywordsFrom(_, _, _)
KeywordsFrom(words, k, keywords) ==
    IF k > Len(words) THEN keywords
    ELSE LET cleaned == KeepChars(words[k], LowerSet \cup DigitSet)
             weight == IF cleaned \in SUBJECT_TERMS THEN SUBJECT_TERM
                       ELSE IF cleaned \in TECHNICAL_TERMS THEN TECHNICAL_TERM
                       ELSE REGULAR_TERM
         IN IF Len(cleaned) < MIN_KEYWORD_LENGTH \/ cleaned \in STOP_WORDS
            THEN KeywordsFrom(words, k + 1, keywords)
            ELSE KeywordsFrom(words, k + 1, MapAdd(keywords, cleaned, weight))

extractKeywords(text) == KeywordsFrom(Split(ToLowerCase(text)), 1, <<>>)

\* the first word that, stripped to [a-z], is a subject term; "" for null
RECURSIVE SubjectFromWords(_, _)
SubjectFromWords(words, k) ==
    IF k > Len(words) THEN ""
    ELSE IF KeepChars(words[k], LowerSet) \in SUBJECT_TERMS
         THEN KeepChars(words[k], LowerSet)
    ELSE SubjectFromWords(words, k + 1)

extractSubject(text) == SubjectFromWords(Split(ToLowerCase(text)), 1)

NEGATION_PAIRS ==
    << [positive |-> "mask",
        negative |-> <<"unmask", "unmasked", "not mask", "without mask",
                       "without masking">>],
       [positive |-> "encrypt",
        negative |-> <<"unencrypt", "unencrypted", "not encrypt",
                       "without encrypt", "without encryption">>],
       [positive |-> "validate",
        negative |-> <<"not validate", "skip validation", "skips validation",
                       "without validation", "no validation">>],
       [positive |-> "verify",
        negative |-> <<"not verify", "unverified", "without verification",
                       "skip verification">>],
       [positive |-> "authenticate",
        negative |-> <<"unauthenticated", "not authenticate",
                       "without authentication", "skip authentication">>],
       [positive |-> "send", negative |-> <<"not send", "never send", "block">>],
       [positive |-> "receive",
        negative |-> <<"not receive", "reject", "ignore">>],
       [positive |-> "accept", negative |-> <<"reject", "not accept", "refuse">>],
       [positive |-> "include",
        negative |-> <<"exclude", "omit", "not include">>],
       [positive |-> "support", negative |-> <<"not support", "unsupported">>],
       [positive |-> "allow",
        negative |-> <<"disallow", "not allow", "forbid", "prohibit">>],
       [positive |-> "enable", negative |-> <<"disable", "not enable">>],
       [positive |-> "close", negative |-> <<"not close", "keep open">>],
       [positive |-> "open", negative |-> <<"not open", "close">>] >>

\* pair.negative.some((neg) => lower.includes(neg))
hasNegativeAction(text, pair) ==
    \E n \in 1..Len(pair.negative) : Includes(ToLowerCase(text), pair.negative[n])

hasPositiveAction(text, pair) ==
    IF hasNegativeAction(text, pair) THEN FALSE
    ELSE Includes(ToLowerCase(text), pair.positive)

\* regression: only a positive statement against a negative requirement counts
actionsContradictOneWay(action1, action2) ==
    \E p \in 1..Len(NEGATION_PAIRS) :
        /\ hasPositiveAction(action1, NEGATION_PAIRS[p])
        /\ hasNegativeAction(action2, NEGATION_PAIRS[p])

actionsContradict(action1, action2) ==
    \E p \in 1..Len(NEGATION_PAIRS) :
        \/ /\ hasPositiveAction(action1, NEGATION_PAIRS[p])
           /\ hasNegativeAction(action2, NEGATION_PAIRS[p])
        \/ /\ hasNegativeAction(action1, NEGATION_PAIRS[p])
           /\ hasPositiveAction(action2, NEGATION_PAIRS[p])

\* conflictingLevels[statementLevel] || []
conflictingLevels(statementLevel) ==
    CASE statementLevel = "MAY" -> {"MUST", "MUST NOT", "SHALL", "SHALL NOT"}
      [] statementLevel = "OPTIONAL" ->
            {"MUST", "MUST NOT", "REQUIRED", "SHALL", "SHALL NOT"}
      [] statementLevel = "SHOULD" -> {"MUST NOT", "SHALL NOT"}
      [] statementLevel = "SHOULD NOT" -> {"MUST", "SHALL", "REQUIRED"}
      [] statementLevel = "RECOMMENDED" -> {"MUST NOT", "SHALL NOT"}
      [] statementLevel = "NOT RECOMMENDED" -> {"MUST", "SHALL", "REQUIRED"}
      [] OTHER -> {}

\* reqAction.replace(/must not|shall not/gi, '')
RECURSIVE RemoveProhibition(_, _)
RemoveProhibition(s, i) ==
    IF i >= Len(s) THEN ""
    ELSE IF OccursAtIgnoreCase(s, "must not", i)
         THEN RemoveProhibition(s, i + Len("must not"))
    ELSE IF OccursAtIgnoreCase(s, "shall not", i)
         THEN RemoveProhibition(s, i + Len("shall not"))
    ELSE CharAt(s, i) \o RemoveProhibition(s, i + 1)

\* req.subject?.toLowerCase() || extractSubject(req.text)
ReqSubject(req) ==
    IF req.subject # <<>> /\ req.subject[1] # ""
    THEN ToLowerCase(req.subject[1]) ELSE extractSubject(req.text)

\* req.action || req.text
ReqAction(req) ==
    IF req.action # <<>> /\ req.action[1] # "" THEN req.action[1] ELSE req.text

MaxVerbIndex == 20

\* count of the statement keywords that req.text.toLowerCase() includes
KeywordOverlap(req, statementKeywords) ==
    Cardinality({k \in 1..Len(statementKeywords) :
                    Includes(ToLowerCase(req.text), statementKeywords[k].keyword)})

\* regression: the overlap test is dropped
LevelConflictAnyOverlap(req, statementLevel, statementKeywords) ==
    /\ statementLevel # ""
    /\ req.level \in conflictingLevels(statementLevel)

\* Check 1: the level-based conflict
LevelConflict(req, statementLevel, statementKeywords) ==
    /\ statementLevel # ""
    /\ req.level \in conflictingLevels(statementLevel)
    /\ \/ KeywordOverlap(req, statementKeywords) >= MIN_OVERLAP_FOR_CONFLICT
       \/ Len(statementKeywords) <= SHORT_STATEMENT_THRESHOLD

\* reqAction.replace(/must not|shall not/gi, '').trim()
ForbiddenAction(req) == Trim(RemoveProhibition(ReqAction(req), 0))

\* the MUST NOT loop over NEGATION_PAIRS: some pair whose positive verb is at
\* index 0..20 of the forbidden action and which the statement performs
DoesForbidden(req, statementLower) ==
    \E p \in 1..Len(NEGATION_PAIRS) :
        LET verbIndex == IndexOf(ToLowerCase(ForbiddenAction(req)),
                                 NEGATION_PAIRS[p].positive)
        IN /\ ~(verbIndex = -1 \/ verbIndex > MaxVerbIndex)
           /\ hasPositiveAction(statementLower, NEGATION_PAIRS[p])

\* regression: the subject test is dropped
SubjectCheckDropped(req, statementSubject) == TRUE

\* if (reqSubject !== statementSubject) continue
SubjectMatches(req, statementSubject) == ReqSubject(req) = statementSubject

NewConflict(req, reason, statementLevel) ==
    [requirement |-> req, reason |-> reason, statementLevel |-> statementLevel,
     requirementLevel |-> req.level]

\* one iteration of for (const req of requirements): the conflict pushed for
\* req, if any; ctx is [level, subject, keywords, lower] of the statement
ConflictsOf(req, ctx) ==
    IF ~SubjectMatches(req, ctx.subject) THEN <<>>
    ELSE IF LevelConflict(req, ctx.level, ctx.keywords)
         THEN <<NewConflict(req,
                    "Statement uses \"" \o ctx.level
                        \o "\" but requirement uses \"" \o req.level \o "\"",
                    ctx.level)>>
    ELSE IF /\ req.level \in {"MUST", "SHALL", "REQUIRED"}
            /\ actionsContradict(ctx.lower, ReqAction(req))
         THEN <<NewConflict(req,
                    "Statement action contradicts \"" \o req.level
                        \o "\" requirement: \"" \o ReqAction(req) \o "\"",
                    ctx.level)>>
    ELSE IF /\ req.level \in {"MUST NOT", "SHALL NOT"}
            /\ DoesForbidden(req, ctx.lower)
         THEN <<NewConflict(req,
                    "Statement does what \"" \o req.level \o "\" forbids: \""
                        \o ForbiddenAction(req) \o "\"",
                    ctx.level)>>
    ELSE <<>>

RECURSIVE ConflictsFrom(_, _, _)
ConflictsFrom(requirements, k, ctx) ==
    IF k > Len(requirements) THEN <<>>
    ELSE ConflictsOf(requirements[k], ctx)
         \o ConflictsFrom(requirements, k + 1, ctx)

detectConflicts(statement, requirements) ==
    IF extractSubject(statement) = "" THEN <<>>
    ELSE ConflictsFrom(requirements, 1,
             [level |-> ExtractRequirementLevel(statement),
              subject |-> extractSubject(statement),
              keywords |-> extractKeywords(statement),
              lower |-> ToLowerCase(statement)])

SUBJECT_MATCH_BONUS == 5
LEVEL_MATCH_BONUS == 3
DEFAULT_MAX_RESULTS == 10

\* the sum of the weights of the statement keywords that reqText includes
RECURSIVE KeywordScore(_, _, _)
KeywordScore(statementKeywords, k, reqText) ==
    IF k > Len(statementKeywords) THEN 0
    ELSE (IF Includes(reqText, statementKeywords[k].keyword)
          THEN statementKeywords[k].weight ELSE 0)
         + KeywordScore(statementKeywords, k + 1, reqText)

\* scoreRequirementMatch; statementSubject and statementLevel are "" for null
scoreRequirementMatch(requirement, statementKeywords, statementSubject, statementLevel) ==
    LET reqText == ToLowerCase(requirement.text) \o " "
                   \o ToLowerCase(requirement.fullContext)
        subjectMatch == statementSubject # ""
                        /\ ReqSubject(requirement) = statementSubject
        levelMatch == statementLevel # "" /\ requirement.level = statementLevel
    IN [requirement |-> requirement,
        score |-> KeywordScore(statementKeywords, 1, reqText)
                  + (IF subjectMatch THEN SUBJECT_MATCH_BONUS ELSE 0)
                  + (IF levelMatch THEN LEVEL_MATCH_BONUS ELSE 0),
        subjectMatch |-> subjectMatch, levelMatch |-> levelMatch]

\* regression: ascending order
RECURSIVE SortByScoreAscending(_)
SortByScoreAscending(ms) ==
    IF ms = <<>> THEN <<>>
    ELSE LET rest == SortByScoreAscending(SubSeq(ms, 1, Len(ms) - 1))
             m == ms[Len(ms)]
         IN SelectSeq(rest, LAMBDA x : x.score <= m.score) \o <<m>>
            \o SelectSeq(rest, LAMBDA x : x.score > m.score)

\* .sort((a, b) => b.score - a.score): descending, equal scores keep their
\* order
RECURSIVE SortByScore(_)
SortByScore(ms) ==
    IF ms = <<>> THEN <<>>
    ELSE LET rest == SortByScore(SubSeq(ms, 1, Len(ms) - 1))
             m == ms[Len(ms)]
         IN SelectSeq(rest, LAMBDA x : x.score >= m.score) \o <<m>>
            \o SelectSeq(rest, LAMBDA x : x.score < m.score)

\* const scored = requirements.map((req) => scoreRequirementMatch(...))
ScoreAll(statement, requirements) ==
    LET statementKeywords == extractKeywords(statement)
        statementSubject == extractSubject(statement)
        statementLevel == ExtractRequirementLevel(statement)
    IN SelectSeq([k \in 1..Len(requirements) |->
                     scoreRequirementMatch(requirements[k], statementKeywords,
                                           statementSubject, statementLevel)],
                 LAMBDA m : TRUE)

\* scored.filter((m) => m.score > 0).sort(...)
RankedMatches(scored) == SortByScore(SelectSeq(scored, LAMBDA m : m.score > 0))

\* .slice(0, maxResults) with maxResults = DEFAULT_MAX_RESULTS when the
\* option is absent (<<>>)
SliceMatches(sorted, options) ==
    LET maxResults == IF options = <<>> THEN DEFAULT_MAX_RESULTS ELSE options[1]
    IN SubSeq(sorted, 1, IF maxResults < Len(sorted) THEN maxResults
                         ELSE Len(sorted))

-----------------------------------------------------------------------------
(* Specification SpecConflict: detectConflicts over statements and lists.  *)

\* a requirement as the tests build it: subject and action given by hand
HandReq(n, level, text, subject, action) ==
    NewRequirement("5.1", n, level, text, "", text,
        [subject |-> <<subject>>, condition |-> <<>>, exception |-> <<>>,
         action |-> <<action>>])

\* a requirement as extractRequirements builds it
ParsedReq(n, level, text) ==
    NewRequirement("5.1", n, level, text, "", text,
                   parseRequirementComponents(text, level))

\* a requirement as extractTextRequirements builds it
TextReq(n, level, text) ==
    NewRequirement("5.1", n, level, text, "", text, NoComponents)

ClientMustMask ==
    HandReq(1, "MUST", "A client MUST mask all frames that it sends to the server.",
            "client", "mask all frames that it sends to the server")

ServerMustNotMask ==
    HandReq(2, "MUST NOT",
            "A server MUST NOT mask any frames that it sends to the client.",
            "server", "mask any frames that it sends to the client")

ServerMustNotMaskShort ==
    ParsedReq(3, "MUST NOT", "The server MUST NOT mask frames it sends.")

ClientMustReject == ParsedReq(4, "MUST", "The client MUST reject invalid frames.")

ServerShallNotAccept ==
    TextReq(5, "SHALL NOT", "The server SHALL NOT accept unmasked frames.")

WebSocketClientMustMask ==
    ParsedReq(6, "MUST", "WebSocket client MUST mask frames")

ClientShouldClose ==
    ParsedReq(7, "SHOULD", "The client SHOULD close the connection.")

ReqPool ==
    { ClientMustMask, ServerMustNotMask, ServerMustNotMaskShort, ClientMustReject,
      ServerShallNotAccept, WebSocketClientMustMask, ClientShouldClose }

Statements ==
    { "A WebSocket client sends unmasked frames to the server",
      "The client masks all frames before sending",
      "The server masks all frames sent to the client",
      "The server sends unmasked data",
      "The server sends unmasked frames to the client",
      "The client sends frames without masking",
      "The client MAY mask frames",
      "The client accepts invalid frames",
      "The server accepts frames",
      "Something MUST happen",
      "Frames are sent unmasked" }

\* a list longer than the default maxResults, all of client requirements
ElevenRequirements ==
    [k \in 1..11 |-> IF k % 3 = 0 THEN ClientMustMask
                     ELSE IF k % 3 = 1 THEN ClientMustReject
                     ELSE ClientShouldClose]

InitConflict ==
    /\ stmtIn \in Statements
    /\ reqsIn \in SeqsUpTo(ReqPool, MaxReqs) \cup {ElevenRequirements}
    /\ matchOut = NoResult
    /\ ScanIdle
    /\ TextIdle
    /\ ExtIdle
    /\ ServiceIdle
    /\ ToolIdle
    /\ LruIdle
    /\ FetchIdle

\* detectConflicts(statement, requirements)
DetectConflicts ==
    /\ matchOut = NoResult
    /\ matchOut' = [by |-> "detectConflicts",
                    conflicts |-> detectConflicts(stmtIn, reqsIn)]
    /\ UNCHANGED <<stmtIn, reqsIn, scanVars, textVars, extVars, serviceVars, toolVars, lruVars, fetchVars>>

\* matchStatement(statement, requirements, options); the option maxResults
\* is absent (<<>>) or given
\* what matchStatement returns for each value of the option; scored is
\* kept with the result
MatchResults(scored, conflicts) ==
    {[by |-> "matchStatement", maxResults |-> options, scored |-> scored,
      matches |-> SliceMatches(RankedMatches(scored), options),
      conflicts |-> conflicts] : options \in {<<>>, <<0>>, <<1>>, <<2>>}}

matchStatement ==
    /\ matchOut = NoResult
    /\ matchOut' \in MatchResults(ScoreAll(stmtIn, reqsIn),
                                  detectConflicts(stmtIn, reqsIn))
    /\ UNCHANGED <<stmtIn, reqsIn, scanVars, textVars, extVars, serviceVars, toolVars, lruVars, fetchVars>>

NextConflict == DetectConflicts \/ matchStatement

SpecConflict == InitConflict /\ [][NextConflict]_vars

Pairs == {NEGATION_PAIRS[p] : p \in 1..Len(NEGATION_PAIRS)}

\* the requirements of the call whose subject is the statement's subject
SameSubjectReqs(levels) ==
    {reqsIn[k] : k \in {k \in 1..Len(reqsIn) :
        /\ reqsIn[k].level \in levels
        /\ extractSubject(stmtIn) # ""
        /\ ReqSubject(reqsIn[k]) = extractSubject(stmtIn)}}

ConflictsReferencing(req) ==
    {k \in 1..Len(matchOut.conflicts) : matchOut.conflicts[k].requirement = req}

NegatesRequired(req) ==
    \E pair \in Pairs : /\ hasNegativeAction(stmtIn, pair)
                        /\ hasPositiveAction(ReqAction(req), pair)

OnlyPositiveForms ==
    /\ \E pair \in Pairs : hasPositiveAction(stmtIn, pair)
    /\ \A pair \in Pairs : ~hasNegativeAction(stmtIn, pair)

C6_Concrete ==
    /\ Len(detectConflicts("A WebSocket client sends unmasked frames to the server",
                           <<ClientMustMask>>)) >= 1
    /\ detectConflicts("The client masks all frames before sending",
                       <<ClientMustMask>>) = <<>>

\* C6 as stated: for a subject-matching MUST/SHALL/REQUIRED requirement, a
\* statement showing a negative form of a pair whose positive form the
\* requirement's action shows yields a conflict referencing it, and a statement
\* showing only positive forms yields no conflict for it.
C6_NegativeConflictsPositiveNever ==
    matchOut.by = "detectConflicts" =>
        /\ \A req \in SameSubjectReqs({"MUST", "SHALL", "REQUIRED"}) :
              /\ NegatesRequired(req) => ConflictsReferencing(req) # {}
              /\ OnlyPositiveForms => ConflictsReferencing(req) = {}
        /\ C6_Concrete

\* C6 (amended): the negative-form half as stated; a statement showing only
\* positive forms yields no conflict for the requirement provided its level
\* does not conflict with the requirement's level and the requirement's action
\* shows no negative form of a pair whose positive form the statement shows.
C6_NegativeConflicts ==
    matchOut.by = "detectConflicts" =>
        /\ \A req \in SameSubjectReqs({"MUST", "SHALL", "REQUIRED"}) :
              /\ NegatesRequired(req) => ConflictsReferencing(req) # {}
              /\ ( /\ OnlyPositiveForms
                   /\ req.level
                        \notin conflictingLevels(ExtractRequirementLevel(stmtIn))
                   /\ ~\E pair \in Pairs :
                         /\ hasPositiveAction(stmtIn, pair)
                         /\ hasNegativeAction(ReqAction(req), pair) )
                 => ConflictsReferencing(req) = {}
        /\ C6_Concrete

\* the statement without requirement keyword contradicts the MUST requirement
C6_Witness ==
    /\ matchOut.by = "detectConflicts"
    /\ stmtIn = "A WebSocket client sends unmasked frames to the server"
    /\ ExtractRequirementLevel(stmtIn) = ""
    /\ ClientMustMask \in SameSubjectReqs({"MUST"})
    /\ ConflictsReferencing(ClientMustMask) # {}

VerbIndex(req, pair) ==
    IndexOf(ToLowerCase(ForbiddenAction(req)), pair.positive)

\* the pairs whose positive form lies within the first 20 characters of the
\* forbidden-action text
EarlyPairs(req) ==
    {pair \in Pairs :
        /\ VerbIndex(req, pair) >= 0
        /\ VerbIndex(req, pair) + Len(pair.positive) <= MaxVerbIndex}

\* the forbidden action: the early pair whose verb comes first in the text
PrimaryPairs(req) ==
    {pair \in EarlyPairs(req) :
        \A other \in EarlyPairs(req) : VerbIndex(req, pair) <= VerbIndex(req, other)}

C7_Concrete ==
    /\ Len(detectConflicts("The server masks all frames sent to the client",
                           <<ServerMustNotMask>>)) >= 1
    /\ detectConflicts("The server sends unmasked data", <<ServerMustNotMask>>)
          = <<>>

\* C7: for a subject-matching MUST NOT/SHALL NOT requirement whose forbidden
\* action is the negation pair found first within the first 20 characters of
\* the forbidden-action text, a statement performing that action yields a
\* conflict, and a statement (with no requirement keyword of its own) showing
\* only a negative form of that action yields none.
C7_ForbiddenActionOnly ==
    matchOut.by = "detectConflicts" =>
        /\ \A req \in SameSubjectReqs({"MUST NOT", "SHALL NOT"}) :
              \A pair \in PrimaryPairs(req) :
                 /\ hasPositiveAction(stmtIn, pair)
                       => ConflictsReferencing(req) # {}
                 /\ ( /\ hasNegativeAction(stmtIn, pair)
                      /\ ExtractRequirementLevel(stmtIn) = "" )
                       => ConflictsReferencing(req) = {}
        /\ C7_Concrete

\* the requirement's subject as declared, else as extracted from its text
DeclaredElseExtracted(req) ==
    IF req.subject # <<>> THEN req.subject[1] ELSE extractSubject(req.text)

\* C8: every returned conflict references a requirement whose subject
\* (declared, else extracted) is the statement's detected subject; a statement
\* without detectable subject yields no conflict.
C8_SubjectGate ==
    matchOut.by = "detectConflicts" =>
        /\ \A k \in 1..Len(matchOut.conflicts) :
              /\ extractSubject(stmtIn) # ""
              /\ DeclaredElseExtracted(matchOut.conflicts[k].requirement)
                    = extractSubject(stmtIn)
              /\ \E j \in 1..Len(reqsIn) :
                    reqsIn[j] = matchOut.conflicts[k].requirement
        /\ extractSubject(stmtIn) = "" => matchOut.conflicts = <<>>

\* a conflict is returned while a contradicting requirement about another
\* subject is passed over
C8_Witness ==
    /\ matchOut.by = "detectConflicts"
    /\ matchOut.conflicts # <<>>
    /\ \E j \in 1..Len(reqsIn) :
          /\ DeclaredElseExtracted(reqsIn[j]) # extractSubject(stmtIn)
          /\ actionsContradict(ToLowerCase(stmtIn), ReqAction(reqsIn[j]))
          /\ ConflictsReferencing(reqsIn[j]) = {}

-----------------------------------------------------------------------------
(* LRU cache (utils cache.ts): a Map in insertion order, oldest entry first. *)

\* regression: the lookup never finds the key
LRUHasNever(cache, key) == FALSE

\* this.cache.has(key)
LRUHas(cache, key) == \E k \in 1..Len(cache) : cache[k].key = key

\* this.cache.get(key)!
LRUValue(cache, key) ==
    cache[CHOOSE k \in 1..Len(cache) : cache[k].key = key].value

\* regression: nothing is deleted
LRUDeleteNothing(cache, key) == cache

\* this.cache.delete(key)
LRUDelete(cache, key) == SelectSeq(cache, LAMBDA e : e.key # key)

\* regression: a hit leaves the entry where it is
LRUGetInPlace(cache, key) == cache

\* get(key): a hit moves the entry to the newest place, a miss changes nothing
LRUGet(cache, key) ==
    IF ~LRUHas(cache, key) THEN cache
    ELSE Append(LRUDelete(cache, key),
                [key |-> key, value |-> LRUValue(cache, key)])

\* while (this.cache.size >= this.maxSize) delete the oldest key
\* (with nothing left to delete the loop goes on for ever)
RECURSIVE EvictOldest(_, _)
EvictOldest(cache, maxSize) ==
    IF Len(cache) >= maxSize
    THEN EvictOldest(IF Len(cache) > 0 THEN Tail(cache) ELSE cache, maxSize)
    ELSE cache

\* regression: set stores nothing
LRUSetDropped(cache, maxSize, key, value) == cache

\* set(key, value)
LRUSet(cache, maxSize, key, value) ==
    Append(EvictOldest(LRUDelete(cache, key), maxSize),
           [key |-> key, value |-> value])

-----------------------------------------------------------------------------
(* RFC service: getParsedRFC over fetchRFCXML / fetchRFCText (rfc-service.ts, *)
(* rfc-fetcher.ts, config.ts).                                               *)

xmlAvailableFrom == 8650
ParsedMaxSize == 50
XmlMaxSize == 20
TextMaxSize == 20

Callers == 1..MaxCalls

\* an old and a new RFC
Rfcs == {6455, 8650}

XmlSourceNames == <<"rfcEditor", "ietfTools", "datatracker">>
TextSourceNames == <<"rfcEditor", "ietfTools">>

\* what a source request fails with: the XML sources answer 404, the text
\* sources answer something that is not an RFC
XmlSourceErrors == {"HTTP 404"}
TextSourceErrors == {"Validation failed"}

\* Array.prototype.join(separator)
RECURSIVE Join(_, _)
Join(ss, separator) ==
    IF Len(ss) = 0 THEN ""
    ELSE IF Len(ss) = 1 THEN ss[1]
    ELSE ss[1] \o separator \o Join(Tail(ss), separator)

\* fetchFromMultipleSources, all sources failed:
\* `All sources failed: ${messages.join('; ')}` with `[${name}] ${message}`
AllSourcesFailed(names, reason) ==
    "All sources failed: "
    \o Join([k \in 1..Len(names) |-> "[" \o names[k] \o "] " \o reason], "; ")

\* the documents the sources deliver
XmlOf(rfcNumber) ==
    "<?xml version=\"1.0\"?><rfc number=\"" \o ToString(rfcNumber) \o "\"/>"
TextOf(rfcNumber) == "Request for Comments: " \o ToString(rfcNumber)

\* the parsers, seen from the service: the parse of a document
parseRFCXML(xml) == [parsedBy |-> "parseRFCXML", input |-> xml]
parseRFCText(text, rfcNumber) ==
    [parsedBy |-> "parseRFCText", input |-> text]

NoError == [name |-> "", message |-> "", isOldRFC |-> FALSE]
NoParsed == [source |-> "", data |-> [parsedBy |-> "", input |-> ""]]

\* regression: the threshold comparison is reversed
IsOldRFCReversed(rfcNumber) == rfcNumber >= xmlAvailableFrom

\* const isOldRFC = rfcNumber < threshold
IsOldRFC(rfcNumber) == rfcNumber < xmlAvailableFrom

\* new RFCXMLNotAvailableError(rfcNumber, originalErrors)
RFCXMLNotAvailableError(rfcNumber, originalErrors) ==
    LET n == ToString(rfcNumber)
        suggestion ==
            IF IsOldRFC(rfcNumber)
            THEN "RFC " \o n \o " was published before RFCXML v3 format, "
                 \o "XML may not be available. "
                 \o "Consider using text format (use ietf MCP get_ietf_doc)."
            ELSE "Failed to fetch RFC " \o n \o " XML. Check network connection."
    IN [name |-> "RFCXMLNotAvailableError",
        message |->
            "Could not fetch RFC " \o n \o " XML.\n"
            \o "Reason: "
            \o (IF IsOldRFC(rfcNumber)
                THEN "Old RFC (< " \o ToString(xmlAvailableFrom)
                     \o "), XML may not be available"
                ELSE "Network error")
            \o "\nSuggestion: " \o suggestion
            \o (IF Len(originalErrors) > 0
                THEN "\nDetails: " \o Join(originalErrors, ", ") ELSE ""),
        isOldRFC |-> IsOldRFC(rfcNumber)]

\* fetchRFCText: all sources failed
TextFetchError(rfcNumber, cause) ==
    [name |-> "Error",
     message |-> "Failed to fetch RFC " \o ToString(rfcNumber)
                 \o " text from all sources. Error: " \o cause,
     isOldRFC |-> FALSE]

\* regression: the combined error forgets the XML failure
CombinedErrorTextOnly(rfcNumber, xmlError, textError) ==
    [name |-> "Error",
     message |-> "Failed to fetch RFC " \o ToString(rfcNumber) \o ".\n"
                 \o "Text: " \o textError.message,
     isOldRFC |-> FALSE]

\* getParsedRFC: text also failed
CombinedError(rfcNumber, xmlError, textError) ==
    [name |-> "Error",
     message |-> "Failed to fetch RFC " \o ToString(rfcNumber) \o ".\n"
                 \o "XML: " \o xmlError.message \o "\n"
                 \o "Text: " \o textError.message,
     isOldRFC |-> FALSE]

IdleCall ==
    [pc |-> "idle", rfc |-> 0, xmlError |-> NoError, textError |-> NoError,
     result |-> NoParsed, error |-> NoError]

XmlResult(xml) == [source |-> "xml", data |-> parseRFCXML(xml)]
TextResult(text, rfcNumber) ==
    [source |-> "text", data |-> parseRFCText(text, rfcNumber)]

-----------------------------------------------------------------------------
(* Specification SpecService: concurrent getParsedRFC calls.               *)

InitService ==
    /\ parseCache = <<>>
    /\ xmlCache = <<>>
    /\ textCache = <<>>
    /\ calls = [c \in Callers |-> IdleCall]
    /\ fetchStarted = {}
    /\ returned = [n \in Rfcs |-> <<>>]
    /\ ScanIdle
    /\ TextIdle
    /\ ExtIdle
    /\ MatchIdle
    /\ ToolIdle
    /\ LruIdle
    /\ FetchIdle

OtherVarsUnchanged ==
    UNCHANGED <<scanVars, textVars, extVars, matchVars, toolVars, lruVars, fetchVars>>

\* history: the call for rfcNumber returns result (kept when it differs from
\* the result returned last)
Returns(rfcNumber, result) ==
    returned' = [returned EXCEPT ![rfcNumber] =
                    IF @ # <<>> /\ @[Len(@)] = result THEN @
                    ELSE Append(@, result)]

\* history: fetchFromMultipleSources goes to the network for rfcNumber
StartsFetch(kind, rfcNumber) ==
    fetchStarted' = fetchStarted \cup {<<kind, rfcNumber>>}

\* getParsedRFC(rfcNumber) up to its first network wait: the parse cache, then
\* fetchRFCXML's cache
CallGetParsedRFC(c, rfcNumber) ==
    /\ calls[c].pc = "idle"
    /\ IF LRUHas(parseCache, rfcNumber)
       THEN /\ parseCache' = LRUGet(parseCache, rfcNumber)
            /\ calls' = [calls EXCEPT ![c] =
                   [IdleCall EXCEPT !.pc = "done", !.rfc = rfcNumber,
                                    !.result = LRUValue(parseCache, rfcNumber)]]
            /\ Returns(rfcNumber, LRUValue(parseCache, rfcNumber))
            /\ UNCHANGED <<xmlCache, textCache, fetchStarted>>
       ELSE IF LRUHas(xmlCache, rfcNumber)
       THEN /\ xmlCache' = LRUGet(xmlCache, rfcNumber)
            /\ parseCache' = LRUSet(parseCache, ParsedMaxSize, rfcNumber,
                                    XmlResult(LRUValue(xmlCache, rfcNumber)))
            /\ calls' = [calls EXCEPT ![c] =
                   [IdleCall EXCEPT !.pc = "done", !.rfc = rfcNumber,
                       !.result = XmlResult(LRUValue(xmlCache, rfcNumber))]]
            /\ Returns(rfcNumber, XmlResult(LRUValue(xmlCache, rfcNumber)))
            /\ UNCHANGED <<textCache, fetchStarted>>
       ELSE /\ calls' = [calls EXCEPT ![c] =
                   [IdleCall EXCEPT !.pc = "xmlFetch", !.rfc = rfcNumber]]
            /\ StartsFetch("xml", rfcNumber)
            /\ UNCHANGED <<parseCache, xmlCache, textCache, returned>>
    /\ OtherVarsUnchanged

\* fetchRFCXML's network fetch delivers: xmlCache.set, parse, parseCache.set
XmlFetchSucceeds(c) ==
    /\ calls[c].pc = "xmlFetch"
    /\ xmlCache' = LRUSet(xmlCache, XmlMaxSize, calls[c].rfc, XmlOf(calls[c].rfc))
    /\ parseCache' = LRUSet(parseCache, ParsedMaxSize, calls[c].rfc,
                            XmlResult(XmlOf(calls[c].rfc)))
    /\ calls' = [calls EXCEPT ![c].pc = "done",
                              ![c].result = XmlResult(XmlOf(calls[c].rfc))]
    /\ Returns(calls[c].rfc, XmlResult(XmlOf(calls[c].rfc)))
    /\ UNCHANGED <<textCache, fetchStarted>>
    /\ OtherVarsUnchanged

\* fetchRFCXML's network fetch fails with reason: RFCXMLNotAvailableError; for
\* an old RFC fetchRFCText starts (its cache first), otherwise the error is
\* thrown on
XmlFetchFails(c, reason) ==
    /\ calls[c].pc = "xmlFetch"
    /\ LET rfcNumber == calls[c].rfc
           xmlError == RFCXMLNotAvailableError(rfcNumber,
                           <<AllSourcesFailed(XmlSourceNames, reason)>>)
       IN IF xmlError.isOldRFC
          THEN IF LRUHas(textCache, rfcNumber)
               THEN /\ textCache' = LRUGet(textCache, rfcNumber)
                    /\ parseCache' =
                          LRUSet(parseCache, ParsedMaxSize, rfcNumber,
                                 TextResult(LRUValue(textCache, rfcNumber),
                                            rfcNumber))
                    /\ calls' = [calls EXCEPT
                          ![c].pc = "done", ![c].xmlError = xmlError,
                          ![c].result =
                              TextResult(LRUValue(textCache, rfcNumber),
                                         rfcNumber)]
                    /\ Returns(rfcNumber,
                               TextResult(LRUValue(textCache, rfcNumber),
                                          rfcNumber))
                    /\ UNCHANGED fetchStarted
               ELSE /\ calls' = [calls EXCEPT ![c].pc = "textFetch",
                                              ![c].xmlError = xmlError]
                    /\ StartsFetch("text", rfcNumber)
                    /\ UNCHANGED <<parseCache, textCache, returned>>
          ELSE /\ calls' = [calls EXCEPT ![c].pc = "failed",
                                         ![c].xmlError = xmlError,
                                         ![c].error = xmlError]
               /\ UNCHANGED <<parseCache, textCache, fetchStarted, returned>>
    /\ UNCHANGED xmlCache
    /\ OtherVarsUnchanged

\* fetchRFCText's network fetch delivers: textCache.set, parse, parseCache.set
TextFetchSucceeds(c) ==
    /\ calls[c].pc = "textFetch"
    /\ textCache' = LRUSet(textCache, TextMaxSize, calls[c].rfc,
                           TextOf(calls[c].rfc))
    /\ parseCache' = LRUSet(parseCache, ParsedMaxSize, calls[c].rfc,
                            TextResult(TextOf(calls[c].rfc), calls[c].rfc))
    /\ calls' = [calls EXCEPT ![c].pc = "done",
                    ![c].result = TextResult(TextOf(calls[c].rfc), calls[c].rfc)]
    /\ Returns(calls[c].rfc, TextResult(TextOf(calls[c].rfc), calls[c].rfc))
    /\ UNCHANGED <<xmlCache, fetchStarted>>
    /\ OtherVarsUnchanged

\* regression: the failure is stored in the parse cache
TextFetchFailsCached(c, reason) ==
    /\ calls[c].pc = "textFetch"
    /\ LET textError == TextFetchError(calls[c].rfc,
                            AllSourcesFailed(TextSourceNames, reason))
       IN /\ calls' = [calls EXCEPT
                 ![c].pc = "failed", ![c].textError = textError,
                 ![c].error = CombinedError(calls[c].rfc, calls[c].xmlError,
                                            textError)]
          /\ parseCache' = LRUSet(parseCache, ParsedMaxSize, calls[c].rfc, NoParsed)
    /\ UNCHANGED <<xmlCache, textCache, fetchStarted, returned>>
    /\ OtherVarsUnchanged

\* fetchRFCText's network fetch fails with reason: the combined error
TextFetchFails(c, reason) ==
    /\ calls[c].pc = "textFetch"
    /\ LET textError == TextFetchError(calls[c].rfc,
                            AllSourcesFailed(TextSourceNames, reason))
       IN calls' = [calls EXCEPT
              ![c].pc = "failed", ![c].textError = textError,
              ![c].error = CombinedError(calls[c].rfc, calls[c].xmlError,
                                         textError)]
    /\ UNCHANGED <<parseCache, xmlCache, textCache, fetchStarted, returned>>
    /\ OtherVarsUnchanged

\* the awaiting handler takes the outcome; the caller is free again
Settle(c) ==
    /\ calls[c].pc \in {"done", "failed"}
    /\ calls' = [calls EXCEPT ![c] = IdleCall]
    /\ UNCHANGED <<parseCache, xmlCache, textCache, fetchStarted, returned>>
    /\ OtherVarsUnchanged

\* clearParseCache()
ClearParseCache ==
    /\ parseCache # <<>>
    /\ parseCache' = <<>>
    /\ returned' = [n \in Rfcs |-> <<>>]
    /\ UNCHANGED <<xmlCache, textCache, calls, fetchStarted>>
    /\ OtherVarsUnchanged

\* clearCache() of the fetcher (its metadata cache is not part of the model)
ClearCache ==
    /\ xmlCache # <<>> \/ textCache # <<>>
    /\ xmlCache' = <<>>
    /\ textCache' = <<>>
    /\ fetchStarted' = {}
    /\ UNCHANGED <<parseCache, calls, returned>>
    /\ OtherVarsUnchanged

NextService ==
    \/ \E c \in Callers, rfcNumber \in Rfcs : CallGetParsedRFC(c, rfcNumber)
    \/ \E c \in Callers : XmlFetchSucceeds(c)
    \/ \E c \in Callers, reason \in XmlSourceErrors : XmlFetchFails(c, reason)
    \/ \E c \in Callers : TextFetchSucceeds(c)
    \/ \E c \in Callers, reason \in TextSourceErrors : TextFetchFails(c, reason)
    \/ \E c \in Callers : Settle(c)
    \/ ClearParseCache
    \/ ClearCache

SpecService == InitService /\ [][NextService]_vars

\* the XML fetch of caller c's call fails in this step
XmlFetchFailsFor(c) ==
    /\ calls[c].pc = "xmlFetch"
    /\ calls'[c].xmlError # NoError

\* caller c's call returns in this step after its XML fetch failed
ReturnsAfterXmlFailure(c) ==
    /\ calls[c].pc # "done"
    /\ calls'[c].pc = "done"
    /\ calls'[c].xmlError # NoError

\* the call goes on to the plain text and what it returns is the parse of the
\* text, tagged 'text', and is what the parse cache now holds for the number
FallsBackToText(c) ==
    /\ XmlFetchFailsFor(c) => calls'[c].pc \in {"textFetch", "done"}
    /\ ReturnsAfterXmlFailure(c) =>
          /\ calls'[c].result.source = "text"
          /\ calls'[c].result.data = parseRFCText(TextOf(calls[c].rfc), calls[c].rfc)
          /\ LRUHas(parseCache', calls[c].rfc)
          /\ LRUValue(parseCache', calls[c].rfc) = calls'[c].result

\* C9 as stated: for every RFC number, a failed XML fetch does not fail the
\* call; the plain text is fetched and parsed instead and, when that succeeds,
\* the call returns and caches a result tagged source 'text'.
C9_FallbackForEveryRfc ==
    [][\A c \in Callers : FallsBackToText(c)]_vars

\* C9 as the code has it: for every RFC number below xmlAvailableFrom (8650),
\* a failed XML fetch does not fail the call; the plain text is fetched and
\* parsed instead and, when that succeeds, the call returns and caches a
\* result tagged source 'text'.
C9_FallbackForOldRfc ==
    [][\A c \in Callers :
          calls[c].rfc < xmlAvailableFrom => FallsBackToText(c)]_vars

\* a call for an old RFC has returned the text parse after its XML fetch
\* failed and its text fetch went over the network, and the cache holds it
C9_Witness ==
    \E c \in Callers :
        /\ calls[c].pc = "done"
        /\ calls[c].rfc < xmlAvailableFrom
        /\ calls[c].xmlError.name = "RFCXMLNotAvailableError"
        /\ calls[c].result.source = "text"
        /\ LRUHas(textCache, calls[c].rfc)
        /\ LRUHas(parseCache, calls[c].rfc)
        /\ LRUValue(parseCache, calls[c].rfc) = calls[c].result

\* C10: a call whose XML fetch and text fetch both failed is rejected with one
\* error, and that error's message contains the message of the XML failure and
\* the message of the text failure.
C10_CombinedError ==
    \A c \in Callers :
        calls[c].xmlError # NoError /\ calls[c].textError # NoError =>
            /\ calls[c].pc = "failed"
            /\ calls[c].result = NoParsed
            /\ calls[c].error.name = "Error"
            /\ Includes(calls[c].error.message, calls[c].xmlError.message)
            /\ Includes(calls[c].error.message, calls[c].textError.message)

\* a call has been rejected after both fetches failed, each for its own reason
C10_Witness ==
    \E c \in Callers :
        /\ calls[c].pc = "failed"
        /\ Includes(calls[c].xmlError.message, "[datatracker] HTTP 404")
        /\ Includes(calls[c].textError.message, "[ietfTools] Validation failed")
        /\ Includes(calls[c].error.message, "[datatracker] HTTP 404")
        /\ Includes(calls[c].error.message, "[ietfTools] Validation failed")

\* caller c starts a getParsedRFC call for rfcNumber in this step
StartsCall(c, rfcNumber) ==
    /\ calls[c].pc = "idle"
    /\ calls'[c].pc # "idle"
    /\ calls'[c].rfc = rfcNumber

\* the cache holds an entry under key
HoldsKey(cache, key) == key \in {cache[k].key : k \in 1..Len(cache)}

\* C11 as stated: once a call for n has returned, every later call for n
\* (no clearParseCache or eviction in between) returns at once, without a
\* network fetch, the very result every earlier call returned, source tag
\* included.
C11_SameResultAsEveryEarlierCall ==
    [][\A c \in Callers, n \in Rfcs :
          (StartsCall(c, n) /\ returned[n] # <<>>) =>
              /\ calls'[c].pc = "done"
              /\ fetchStarted' = fetchStarted
              /\ \A k \in 1..Len(returned[n]) :
                    /\ calls'[c].result = returned[n][k]
                    /\ calls'[c].result.source = returned[n][k].source]_vars

\* C11 as the code has it: once a call for n has returned, every later call
\* for n (no clearParseCache or eviction in between) returns at once, without
\* a network fetch, the cached result: the one returned by the call for n
\* that completed last, with its source tag.
C11_CachedResultOfLastCall ==
    [][\A c \in Callers, n \in Rfcs :
          (StartsCall(c, n) /\ returned[n] # <<>>) =>
              /\ calls'[c].pc = "done"
              /\ fetchStarted' = fetchStarted
              /\ calls'[c].result = returned[n][Len(returned[n])]
              /\ calls'[c].result.source = returned[n][Len(returned[n])].source
              /\ HoldsKey(parseCache', n)]_vars

\* a call has returned a text-tagged result without any fetch of its own:
\* the result an earlier call had cached
C11_Witness ==
    \E c \in Callers :
        /\ calls[c].pc = "done"
        /\ calls[c].xmlError = NoError
        /\ calls[c].result.source = "text"
        /\ returned[calls[c].rfc] # <<>>
        /\ calls[c].result = returned[calls[c].rfc][Len(returned[calls[c].rfc])]

\* caller c's call goes to the network for the XML / the text in this step
StartsXmlFetch(c) == calls[c].pc # "xmlFetch" /\ calls'[c].pc = "xmlFetch"
StartsTextFetch(c) == calls[c].pc # "textFetch" /\ calls'[c].pc = "textFetch"

\* C12 as stated: under any interleaving the network fetch for an RFC number
\* is started at most once per cache epoch, and two overlapping calls for the
\* same uncached number never both fetch it.
C12_AtMostOneFetchPerEpoch ==
    [][\A c \in Callers :
          /\ StartsXmlFetch(c) => <<"xml", calls'[c].rfc>> \notin fetchStarted
          /\ StartsTextFetch(c) => <<"text", calls'[c].rfc>> \notin fetchStarted]_vars

\* C12 as the code has it: a network fetch for an RFC number is started only
\* by a call whose lookup found no entry for the number in the cache the fetch
\* fills (and, for the XML, none in the parse cache), and a fetch that
\* succeeds leaves the entry in that cache and in the parse cache; lookup and
\* insert are not one atomic step, so overlapping calls for the same uncached
\* number each fetch it.
C12_FetchOnlyWhenUncached ==
    [][\A c \in Callers :
          /\ StartsXmlFetch(c) =>
                /\ ~HoldsKey(parseCache, calls'[c].rfc)
                /\ ~HoldsKey(xmlCache, calls'[c].rfc)
          /\ StartsTextFetch(c) => ~HoldsKey(textCache, calls[c].rfc)
          /\ (calls[c].pc = "xmlFetch" /\ calls'[c].pc = "done"
                 /\ calls'[c].xmlError = NoError) =>
                /\ HoldsKey(xmlCache', calls[c].rfc)
                /\ HoldsKey(parseCache', calls[c].rfc)
          /\ (calls[c].pc = "textFetch" /\ calls'[c].pc = "done") =>
                /\ HoldsKey(textCache', calls[c].rfc)
                /\ HoldsKey(parseCache', calls[c].rfc)]_vars

\* two overlapping calls for the same number are both out fetching it, and
\* an entry for another number is cached
C12_Witness ==
    \E c, d \in Callers :
        /\ c # d
        /\ calls[c].pc = "xmlFetch"
        /\ calls[d].pc = "xmlFetch"
        /\ calls[c].rfc = calls[d].rfc
        /\ xmlCache # <<>>

-----------------------------------------------------------------------------
(* Specification SpecScan: requirement-marker scanning of bounded texts.   *)

ScanFragments ==
    {"MUST", " NOT", " RECOMMENDED", "SHOULD", " ", "x", ".", "must not",
     " support X"}

ScanTexts == {Concat(fs) : fs \in SeqsUpTo(ScanFragments, MaxFrags)}


InitScan ==
    /\ scanText \in ScanTexts
    /\ scanOut = NoResult
    /\ regexLastIndex = 0
    /\ TextIdle
    /\ ExtIdle
    /\ MatchIdle
    /\ ServiceIdle
    /\ ToolIdle
    /\ LruIdle
    /\ FetchIdle

\* no scan is running: nothing was scanned yet, or the last scan is over and
\* its result was set aside
NoScanRunning == scanOut.by \in {"none", "again"}

\* createTextBlocks on one paragraph
ScanTextBlock ==
    /\ NoScanRunning
    /\ scanOut' = [by |-> "text", content |-> Trim(scanText),
                   markers |-> TextBlockMarkers(Trim(scanText))]
    /\ UNCHANGED <<scanText, regexLastIndex, textVars, extVars, matchVars, serviceVars, toolVars, lruVars, fetchVars>>

\* createTextBlock of the XML parser, one turn of the loop of
\* extractRequirementMarkers: match = REQUIREMENT_REGEX.exec(text) on the
\* shared regex; a match is pushed, null ends the scan
ScanXmlBlock ==
    /\ NoScanRunning \/ scanOut.by = "xmlLoop"
    /\ LET markers == IF NoScanRunning THEN <<>> ELSE scanOut.markers
           match == RegexExec(scanText, regexLastIndex)
       IN /\ scanOut' =
                IF match.index = -1
                THEN [by |-> "xml", content |-> scanText, markers |-> markers]
                ELSE [by |-> "xmlLoop", content |-> scanText,
                      markers |-> Append(markers, [level |-> match.level,
                                                   position |-> match.index])]
          /\ regexLastIndex' = match.lastIndex
    /\ UNCHANGED <<scanText, textVars, extVars, matchVars, serviceVars, toolVars, lruVars, fetchVars>>

\* extractRequirementLevel on a statement
ScanStatementLevel ==
    /\ NoScanRunning
    /\ scanOut' = [by |-> "statement", content |-> scanText,
                   level |-> ExtractRequirementLevel(scanText)]
    /\ UNCHANGED <<scanText, regexLastIndex, textVars, extVars, matchVars, serviceVars, toolVars, lruVars, fetchVars>>

\* the same text is parsed again, or another paragraph or statement comes
\* in; the module and its regex stay loaded
ScanAgain(text) ==
    /\ scanOut.by \in {"text", "xml", "statement"}
    /\ scanText' = text
    /\ scanOut' = [by |-> "again", previous |-> scanOut]
    /\ UNCHANGED <<regexLastIndex, textVars, extVars, matchVars, serviceVars, toolVars, lruVars, fetchVars>>

NextScan ==
    \/ ScanTextBlock
    \/ ScanXmlBlock
    \/ ScanStatementLevel
    \/ \E text \in {scanText} \cup ScanFragments : ScanAgain(text)

SpecScan == InitScan /\ [][NextScan]_vars

TwoWordKeywords == {"MUST NOT", "SHALL NOT", "SHOULD NOT", "NOT RECOMMENDED"}
NegatedKeywords == {"MUST NOT", "SHALL NOT", "SHOULD NOT"}

\* keyword k stands in s at index i as whole words
WholeWordAt(s, k, i) ==
    /\ OccursAt(s, k, i)
    /\ ~IsWordChar(CharAt(s, i - 1))
    /\ ~IsWordChar(CharAt(s, i + Len(k)))

\* exactly one marker lies in the occurrence of k at i: the one for k at i
OneMarkerFor(markers, k, i) ==
    /\ Cardinality({n \in 1..Len(markers) :
                      markers[n].position \in i..(i + Len(k) - 1)}) = 1
    /\ \E n \in 1..Len(markers) :
           markers[n].position = i /\ markers[n].level = k

\* the "NOT" of an occurrence of NOT RECOMMENDED at i is the second word of
\* a whole-word MUST NOT / SHALL NOT / SHOULD NOT
NotIsTailOfNegation(s, i) ==
    \E k \in NegatedKeywords :
        OccursAt(s, k, i + 3 - Len(k)) /\ ~IsWordChar(CharAt(s, i + 2 - Len(k)))

\* the keyword occurrences of s that start before index i
KeywordBefore(s, i) ==
    \E j \in 0..(i - 1) : \E n \in 1..Len(REQUIREMENT_KEYWORDS) :
        WholeWordAt(s, REQUIREMENT_KEYWORDS[n], j)

StatementLevelLongest ==
    scanOut.by = "statement" =>
        \A k \in TwoWordKeywords : \A i \in 0..Len(scanOut.content) :
            (/\ WholeWordAt(ToUpperCase(scanOut.content), k, i)
             /\ ~KeywordBefore(ToUpperCase(scanOut.content), i))
            => scanOut.level = k

ConcreteMustNot ==
    (scanOut.by \in {"text", "xml"} /\ scanOut.content = "MUST NOT support X")
        => scanOut.markers = <<[level |-> "MUST NOT", position |-> 0]>>

\* C2 as stated: every whole-word occurrence of a two-word keyword yields
\* exactly one marker, of that level, and none for the shorter keyword in it
C2_EveryOccurrenceOneMarker ==
    /\ scanOut.by \in {"text", "xml"} =>
           \A k \in TwoWordKeywords : \A i \in 0..Len(scanOut.content) :
               WholeWordAt(scanOut.content, k, i)
               => OneMarkerFor(scanOut.markers, k, i)
    /\ StatementLevelLongest
    /\ ConcreteMustNot

\* C2 amended: every whole-word occurrence of MUST NOT, SHALL NOT or SHOULD NOT
\* yields exactly one marker, at its start and of its level, and so does every
\* occurrence of NOT RECOMMENDED whose NOT is not the second word of a
\* preceding MUST NOT / SHALL NOT / SHOULD NOT; "MUST NOT support X" yields
\* the single marker MUST NOT; statement level detection returns the two-word
\* keyword when it is the first keyword of the statement
C2_LongestMatch ==
    /\ scanOut.by \in {"text", "xml"} =>
           \A k \in TwoWordKeywords : \A i \in 0..Len(scanOut.content) :
               (/\ WholeWordAt(scanOut.content, k, i)
                /\ (k = "NOT RECOMMENDED" => ~NotIsTailOfNegation(scanOut.content, i)))
               => OneMarkerFor(scanOut.markers, k, i)
    /\ StatementLevelLongest
    /\ ConcreteMustNot

C2_Witness ==
    /\ scanOut.by = "text"
    /\ scanOut.content = "MUST NOT support X"
    /\ Len(scanOut.markers) = 1

\* C13: no scan works on a shared stateful matcher (no step of a scan moves
\* the lastIndex of a module-level regex), every scan starts at position 0
\* whatever scans ran before it, and a text scanned a second time gets the
\* markers (the level) it got the first time.
C13_NoSharedMatcherState ==
    [][/\ regexLastIndex' = regexLastIndex
       /\ NoScanRunning => regexLastIndex = 0
       /\ (/\ scanOut.by = "again"
           /\ scanOut'.by = scanOut.previous.by
           /\ scanOut'.content = scanOut.previous.content)
          => scanOut' = scanOut.previous]_vars

-----------------------------------------------------------------------------
(* XML parser: text of a paragraph or list item with inline <bcp14>        *)
(* elements (parseRFCXML, extractContent, extractText).                    *)

MaxPieces == 3

\* the children of a <t> or <li> element in document order: character data
\* and <bcp14> elements
TextPieces == {"The client ", " send data.", " "}
Bcp14Keywords == {"MUST", "SHOULD NOT", "MAY"}
Pieces ==
    [tag : {"#text"}, value : TextPieces] \cup [tag : {"bcp14"}, value : Bcp14Keywords]

\* character data between two tags is one piece, and there is character
\* data between two keywords
Elements ==
    {ps \in SeqsUpTo(Pieces, MaxPieces) :
        /\ ps # <<>>
        /\ \A k \in 1..(Len(ps) - 1) : ps[k].tag # ps[k + 1].tag}

ValuesOf(ps, tag) == SelectSeq(ps, LAMBDA p : p.tag = tag)

\* parser.parse of the XMLParser configured with preserveOrder: false and
\* trimValues: true, on one element: an element with character data only is
\* its trimmed string; otherwise the trimmed, non-empty character data are
\* concatenated under '#text' and the <bcp14> children are collected under
\* 'bcp14'
XMLParse(ps) ==
    LET texts == [k \in 1..Len(ValuesOf(ps, "#text")) |->
                      Trim(ValuesOf(ps, "#text")[k].value)]
        text == Concat(texts)
        children == [k \in 1..Len(ValuesOf(ps, "bcp14")) |->
                         ValuesOf(ps, "bcp14")[k].value]
    IN IF children = <<>>
       THEN [isString |-> TRUE, string |-> text]
       ELSE [isString |-> FALSE, text |-> text, bcp14 |-> children]

\* a node with '#text' is that text; only without it the other keys are
\* walked, an array joined with ' '
extractText(node) ==
    IF node.isString THEN node.string
    ELSE IF node.text # "" THEN node.text
    ELSE Trim(Join(node.bcp14, " "))

createTextBlock(text) ==
    [type |-> "text", content |-> text,
     requirements |-> ExtractRequirementMarkers(text, 0)]

InitXml ==
    /\ toolIn \in [by : {"xml"}, element : Elements]
    /\ toolOut = NoResult
    /\ ScanIdle
    /\ TextIdle
    /\ ExtIdle
    /\ MatchIdle
    /\ ServiceIdle
    /\ LruIdle
    /\ FetchIdle

\* for (const t of paragraphs): a <t> with text becomes a text block
ParseParagraph ==
    /\ toolOut = NoResult
    /\ LET text == extractText(XMLParse(toolIn.element))
       IN toolOut' = [by |-> "t",
                      blocks |-> IF text # "" THEN <<createTextBlock(text)>>
                                 ELSE <<>>]
    /\ UNCHANGED <<toolIn, scanVars, textVars, extVars, matchVars, serviceVars, lruVars, fetchVars>>

\* items: toArray(list.li).map(...): every <li> becomes an item
ParseListItem ==
    /\ toolOut = NoResult
    /\ LET text == extractText(XMLParse(toolIn.element))
       IN toolOut' = [by |-> "li",
                      blocks |-> <<[content |-> text,
                                    requirements |->
                                        ExtractRequirementMarkers(text, 0)]>>]
    /\ UNCHANGED <<toolIn, scanVars, textVars, extVars, matchVars, serviceVars, lruVars, fetchVars>>

NextXml == ParseParagraph \/ ParseListItem

SpecXml == InitXml /\ [][NextXml]_vars

\* the text of the element with its tags taken away, and where piece k
\* starts in it
FlatText(ps) == Trim(Concat([k \in 1..Len(ps) |-> ps[k].value]))
PlaceOf(ps, k) ==
    LET all == Concat([j \in 1..Len(ps) |-> ps[j].value])
        leading == Len(all) + 1 - Len(Trim(all \o "x"))
    IN Len(Concat([j \in 1..(k - 1) |-> ps[j].value])) - leading

\* C14: a keyword in <bcp14> inside a paragraph or list item is in the
\* block content at its place in the sentence, and (standing there as a
\* whole word) has a marker of its level whose position points at it:
\* content.substring(position, position + level.length) = level.
C14_Bcp14KeywordKept ==
    toolOut.by \in {"t", "li"} =>
        \A k \in 1..Len(toolIn.element) :
            toolIn.element[k].tag = "bcp14" =>
                LET level == toolIn.element[k].value
                    place == PlaceOf(toolIn.element, k)
                IN /\ toolOut.blocks # <<>>
                   /\ Substring(toolOut.blocks[1].content, place,
                                place + Len(level)) = level
                   /\ WholeWordAt(FlatText(toolIn.element), level, place) =>
                          \E m \in 1..Len(toolOut.blocks[1].requirements) :
                              LET marker == toolOut.blocks[1].requirements[m]
                              IN /\ marker.level = level
                                 /\ marker.position = place

-----------------------------------------------------------------------------
(* Section-header limits of the plain-text parser (SpecText).              *)

\* the line is a candidate header (number, whitespace, title) whose first
\* number is above 99 or whose number has more than 5 components
OversizedHeader(line) ==
    LET m == MatchSectionHeader(Trim(line))
        sectionNum == StripTrailingDot(m.num)
    IN /\ m.ok
       /\ FirstNumber(sectionNum) > 99 \/ DottedDepth(sectionNum) > 5

\* C15: a candidate header line whose leading number is above 99 or whose
\* dotted depth is above 5 is never a section boundary: no section of the
\* result has such a number, there are no more sections than other candidate
\* lines, and "1001 Connection refused" is no section of the tree.
C15_OversizedHeaderRejected ==
    parsed.by = "parseRFCText" =>
        /\ \A n \in 1..Len(parsed.flat) :
               /\ FirstNumber(parsed.flat[n].number) <= 99
               /\ DottedDepth(parsed.flat[n].number) <= 5
               /\ parsed.flat[n].number # "1001"
               /\ parsed.flat[n].title # "Connection refused"
        /\ Len(parsed.flat) <=
               Cardinality({i \in 1..Len(doc) :
                               /\ MatchSectionHeader(Trim(doc[i])).ok
                               /\ ~OversizedHeader(doc[i])})

\* "1001 Connection refused" and a header of depth 6 stay in the body of the
\* section they follow
C15_Witness ==
    /\ parsed.by = "parseRFCText"
    /\ doc = <<"1 Introduction", "1001 Connection refused", "1.2.3.4.5.6 Format">>
    /\ Len(parsed.flat) = 1
    /\ parsed.flat[1].body = "1001 Connection refused\n1.2.3.4.5.6 Format"

-----------------------------------------------------------------------------
(* Checklist generation (checklist-generator.ts, handleGenerateChecklist). *)

MustLevels == {"MUST", "MUST NOT", "REQUIRED", "SHALL", "SHALL NOT"}
ShouldLevels == {"SHOULD", "SHOULD NOT", "RECOMMENDED", "NOT RECOMMENDED"}
MayLevels == {"MAY", "OPTIONAL"}

\* regression: NOT RECOMMENDED is in no tier
classifyRequirementsShort(requirements) ==
    [must |-> SelectSeq(requirements, LAMBDA r : r.level \in MustLevels),
     should |-> SelectSeq(requirements,
                          LAMBDA r : r.level \in ShouldLevels \ {"NOT RECOMMENDED"}),
     may |-> SelectSeq(requirements, LAMBDA r : r.level \in MayLevels)]

classifyRequirements(requirements) ==
    [must |-> SelectSeq(requirements, LAMBDA r : r.level \in MustLevels),
     should |-> SelectSeq(requirements, LAMBDA r : r.level \in ShouldLevels),
     may |-> SelectSeq(requirements, LAMBDA r : r.level \in MayLevels)]

\* role is <<>> when the argument is absent
filterByRole(requirements, role) ==
    IF role = <<>> \/ role = <<"both">> THEN requirements
    ELSE SelectSeq(requirements,
            LAMBDA r :
                LET subject == IF r.subject = <<>> THEN ""
                               ELSE ToLowerCase(r.subject[1])
                IN IF role = <<"client">>
                   THEN Includes(subject, "client") \/ ~Includes(subject, "server")
                   ELSE Includes(subject, "server") \/ ~Includes(subject, "client"))

createChecklistItems(requirements) ==
    [k \in 1..Len(requirements) |->
        [id |-> requirements[k].id, requirement |-> requirements[k],
         checked |-> FALSE]]

generateChecklist(requirements, role) ==
    LET classified == classifyRequirements(filterByRole(requirements, role))
    IN [role |-> role,
        must |-> createChecklistItems(classified.must),
        should |-> createChecklistItems(classified.should),
        may |-> createChecklistItems(classified.may)]

getChecklistStats(checklist) ==
    [must |-> Len(checklist.must), should |-> Len(checklist.should),
     may |-> Len(checklist.may),
     total |-> Len(checklist.must) + Len(checklist.should) + Len(checklist.may)]

\* the requirements extractRequirements hands over: the level is a keyword
\* the regex matched, the subject one parseRequirementComponents found
ChecklistSubjects == {<<>>, <<"client">>, <<"server">>}
ChecklistRequirements ==
    {[k \in 1..Len(q) |->
         [id |-> "R-1-" \o ToString(k), level |-> q[k][1], subject |-> q[k][2]]] :
     q \in SeqsUpTo(SeqRange(REQUIREMENT_KEYWORDS) \X ChecklistSubjects, MaxReqs)}
Roles == {<<>>, <<"client">>, <<"server">>, <<"both">>}

InitChecklist ==
    /\ toolIn \in [by : {"checklist"}, requirements : ChecklistRequirements,
                   role : Roles]
    /\ toolOut = NoResult
    /\ ScanIdle
    /\ TextIdle
    /\ ExtIdle
    /\ MatchIdle
    /\ ServiceIdle
    /\ LruIdle
    /\ FetchIdle

handleGenerateChecklist ==
    /\ toolOut = NoResult
    /\ LET checklist == generateChecklist(toolIn.requirements, toolIn.role)
       IN toolOut' = [by |-> "generate_checklist",
                      role |-> IF toolIn.role = <<>> THEN "both" ELSE toolIn.role[1],
                      checklist |-> checklist,
                      stats |-> getChecklistStats(checklist)]
    /\ UNCHANGED <<toolIn, scanVars, textVars, extVars, matchVars, serviceVars, lruVars, fetchVars>>

NextChecklist == handleGenerateChecklist

SpecChecklist == InitChecklist /\ [][NextChecklist]_vars

\* how many items of the tier hold requirement r
TimesIn(items, r) == Cardinality({k \in 1..Len(items) : items[k].requirement = r})

\* C16: every requirement that passes the role filter is in exactly one of
\* the tiers must, should and may, and stats.total = stats.must +
\* stats.should + stats.may = the number of role-filtered requirements.
C16_TiersPartitionFiltered ==
    toolOut.by = "generate_checklist" =>
        LET filtered == filterByRole(toolIn.requirements, toolIn.role)
            checklist == toolOut.checklist
            stats == toolOut.stats
        IN /\ \A k \in 1..Len(filtered) :
                  TimesIn(checklist.must, filtered[k])
                  + TimesIn(checklist.should, filtered[k])
                  + TimesIn(checklist.may, filtered[k]) = 1
           /\ stats.total = stats.must + stats.should + stats.may
           /\ stats.total = Len(filtered)
           /\ stats.must = Len(checklist.must)
           /\ stats.should = Len(checklist.should)
           /\ stats.may = Len(checklist.may)

\* a client checklist: the server requirement is filtered out, the
\* NOT RECOMMENDED one counts as should
C16_Witness ==
    /\ toolOut.by = "generate_checklist"
    /\ toolIn.role = <<"client">>
    /\ Len(toolIn.requirements) = 2
    /\ toolIn.requirements[1].subject = <<"server">>
    /\ toolIn.requirements[2].level = "NOT RECOMMENDED"
    /\ toolOut.stats = [must |-> 0, should |-> 1, may |-> 0, total |-> 1]

-----------------------------------------------------------------------------
(* Section lookup and the get_related_sections handler (utils section.ts,  *)
(* handleGetRelatedSections).                                              *)

\* findSection(sections, target): <<>> for null, else <<the section>>
RECURSIVE findSection(_, _)
RECURSIVE FindFrom(_, _, _)
FindFrom(sections, k, target) ==
    IF k > Len(sections) THEN <<>>
    ELSE LET sec == sections[k]
             normalizedTarget == normalizeSectionNumber(target)
             secNumber == IF sec.number # "" THEN normalizeSectionNumber(sec.number)
                          ELSE ""
             secAnchor == IF sec.anchor # "" THEN normalizeSectionNumber(sec.anchor)
                          ELSE ""
         IN IF \/ secNumber = normalizedTarget
               \/ secAnchor = normalizedTarget
               \/ (sec.number # "" /\ sec.number = target)
               \/ (sec.anchor # "" /\ sec.anchor = target)
            THEN <<sec>>
            ELSE LET found == findSection(sec.subsections, target)
                 IN IF found # <<>> THEN found
                    ELSE FindFrom(sections, k + 1, target)

findSection(sections, target) == FindFrom(sections, 1, target)

\* the Set of the section references, in insertion order
RECURSIVE AddRefs(_, _, _)
AddRefs(crossReferences, k, refs) ==
    IF k > Len(crossReferences) THEN refs
    ELSE LET ref == crossReferences[k]
         IN AddRefs(crossReferences, k + 1,
                    IF ref.type = "section" /\ ref.section # ""
                       /\ ref.section \notin SeqRange(refs)
                    THEN Append(refs, ref.section) ELSE refs)

RECURSIVE RefsOfBlocks(_, _, _)
RefsOfBlocks(content, k, refs) ==
    IF k > Len(content) THEN refs
    ELSE RefsOfBlocks(content, k + 1,
                      IF content[k].type = "text"
                      THEN AddRefs(content[k].crossReferences, 1, refs)
                      ELSE refs)

collectCrossReferences(section) == RefsOfBlocks(section.content, 1, <<>>)

\* the value handleGetRelatedSections returns once getParsedRFC has given
\* the sections; error is <<>> when the property is absent
RelatedSections(sections, section) ==
    LET targetSection == findSection(sections, section)
    IN IF targetSection = <<>>
       THEN [by |-> "get_related_sections",
             error |-> <<"Section " \o section \o " not found">>,
             section |-> "", title |-> "", relatedSections |-> <<>>]
       ELSE LET related == collectCrossReferences(targetSection[1])
            IN [by |-> "get_related_sections", error |-> <<>>,
                section |-> section, title |-> targetSection[1].title,
                relatedSections |->
                    [k \in 1..Len(related) |->
                        LET sec == findSection(sections, related[k])
                        IN [number |-> related[k],
                            title |-> IF sec # <<>> /\ sec[1].title # ""
                                      THEN sec[1].title ELSE "Unknown"]]]

\* number and anchor of a section as the parsers leave them ("" is absent):
\* pn of a prepped document, anchor only, bare number of the text parser
SectionNames ==
    { <<"section-1", "intro">>, <<"", "section-1">>, <<"1", "">>, <<"", "">>,
      <<"section-2", "">>, <<"", "intro">> }

RelatedRefs ==
    << [type |-> "section", section |-> "section-2"],
       [type |-> "rfc", section |-> ""],
       [type |-> "section", section |-> "9"],
       [type |-> "section", section |-> "section-2"] >>

\* sections A > B and C; A refers to other sections
RelatedTrees ==
    { << [number |-> a[1], anchor |-> a[2], title |-> "A",
          content |-> <<[type |-> "text", crossReferences |-> RelatedRefs]>>,
          subsections |->
              << [number |-> b[1], anchor |-> b[2], title |-> "B",
                  content |-> <<>>, subsections |-> <<>>] >>],
         [number |-> c[1], anchor |-> c[2], title |-> "C",
          content |-> <<[type |-> "artwork"]>>, subsections |-> <<>>] >> :
      a \in SectionNames, b \in SectionNames, c \in SectionNames }

RelatedTargets ==
    {"1", "section-1", "2", "section-2", "intro", "9", "section-9", "", "section-"}

InitRelated ==
    /\ toolIn \in [by : {"related"}, sections : RelatedTrees,
                   section : RelatedTargets]
    /\ toolOut = NoResult
    /\ ScanIdle
    /\ TextIdle
    /\ ExtIdle
    /\ MatchIdle
    /\ ServiceIdle
    /\ LruIdle
    /\ FetchIdle

handleGetRelatedSections ==
    /\ toolOut = NoResult
    /\ toolOut' = RelatedSections(toolIn.sections, toolIn.section)
    /\ UNCHANGED <<toolIn, scanVars, textVars, extVars, matchVars, serviceVars, lruVars, fetchVars>>

NextRelated == handleGetRelatedSections

SpecRelated == InitRelated /\ [][NextRelated]_vars

\* the sections of a tree in pre-order
RECURSIVE PreOrder(_)
PreOrder(sections) ==
    IF sections = <<>> THEN <<>>
    ELSE <<Head(sections)>> \o PreOrder(Head(sections).subsections)
         \o PreOrder(Tail(sections))

\* the section has a number or an anchor that equals id once a leading
\* "section-" is taken from both
NamedBy(sec, id) ==
    \/ sec.number # "" /\ normalizeSectionNumber(sec.number) = normalizeSectionNumber(id)
    \/ sec.anchor # "" /\ normalizeSectionNumber(sec.anchor) = normalizeSectionNumber(id)

\* C17: the handler returns {error: "Section <id> not found"} exactly when no
\* section of the tree has a number or anchor equal to the id after
\* stripping "section-" from both; otherwise it returns the first such
\* section in pre-order; and the id written "N" or "section-N" finds the
\* same section (or none).
C17_NotFoundExactlyWhenUnnamed ==
    toolOut.by = "get_related_sections" =>
        LET all == PreOrder(toolIn.sections)
            named == {k \in 1..Len(all) : NamedBy(all[k], toolIn.section)}
            other == RelatedSections(toolIn.sections, OtherSpelling(toolIn.section))
        IN /\ (toolOut.error # <<>>) <=> (named = {})
           /\ toolOut.error # <<>> =>
                  toolOut.error = <<"Section " \o toolIn.section \o " not found">>
           /\ toolOut.error = <<>> =>
                  /\ named # {}
                  /\ toolOut.title = all[CHOOSE k \in named : \A j \in named : k <= j].title
           /\ (other.error = <<>>) <=> (toolOut.error = <<>>)
           /\ other.title = toolOut.title
           /\ other.relatedSections = toolOut.relatedSections

-----------------------------------------------------------------------------
(* Requirement ids (SpecExtract).                                          *)

\* C18: in the result of one extraction call the ids are pairwise distinct
\* and of the form R-<section>-<ordinal>, the ordinals are 1, 2, 3, ... in
\* output order, and every call, the first and the later ones, starts at 1.
C18_OrdinalsFromOneEachCall ==
    extOut.by # "none" =>
        /\ \A k \in 1..Len(extOut.reqs) :
               extOut.reqs[k].id =
                   "R-" \o extOut.reqs[k].section \o "-" \o ToString(k)
        /\ \A j, k \in 1..Len(extOut.reqs) :
               j # k => extOut.reqs[j].id # extOut.reqs[k].id

\* a later call whose result runs through three sections
C18_Witness ==
    /\ extOut.by = "extractRequirements"
    /\ extOut.call = 2
    /\ Len(extOut.reqs) >= 4
    /\ extOut.reqs[1].id = "R-section-3-1"
    /\ \E k \in 2..Len(extOut.reqs) :
          extOut.reqs[k].id = "R-section-3.5.1-" \o ToString(k)

-----------------------------------------------------------------------------
(* Ranking of matchStatement (SpecConflict).                               *)

\* the scores the call gave to its requirements, in their order
Scores == [k \in 1..Len(matchOut.scored) |-> matchOut.scored[k].score]

\* C19: every returned match has a score above 0, the matches are in
\* non-increasing score order, there are at most maxResults of them (10 when
\* the option is absent), and no requirement that is left out scores higher
\* than a returned one.
C19_TopScoresInOrder ==
    matchOut.by = "matchStatement" =>
        LET matches == matchOut.matches
            limit == IF matchOut.maxResults = <<>> THEN 10
                     ELSE matchOut.maxResults[1]
            kept == {matches[m].requirement : m \in 1..Len(matches)}
            scores == Scores
        IN /\ Len(scores) = Len(reqsIn)
           /\ \A m \in 1..Len(matches) :
                  /\ matches[m].score > 0
                  /\ \E k \in 1..Len(reqsIn) :
                         /\ matches[m].requirement = reqsIn[k]
                         /\ matches[m].score = scores[k]
           /\ \A m \in 1..(Len(matches) - 1) :
                  matches[m].score >= matches[m + 1].score
           /\ Len(matches) <= limit
           /\ \A k \in 1..Len(reqsIn) :
                  reqsIn[k] \notin kept =>
                      \A m \in 1..Len(matches) :
                          scores[k] <= matches[m].score

\* the lower-scored of two matching requirements, given first, is cut off
C19_Witness ==
    /\ matchOut.by = "matchStatement"
    /\ matchOut.maxResults = <<1>>
    /\ Len(reqsIn) = 2
    /\ matchOut.scored[1].requirement = reqsIn[1]
    /\ 0 < Scores[1]
    /\ Scores[1] < Scores[2]
    /\ Len(matchOut.matches) = 1
    /\ matchOut.matches[1].requirement = reqsIn[2]

-----------------------------------------------------------------------------
(* Specification SpecLru: one LRUCache under set, get, has, delete, clear. *)

\* one key more than the largest cache holds
LruKeys == 1..(MaxCacheSize + 1)
LruValues == {"a", "b"}

\* new LRUCache({ maxSize })
InitLru ==
    /\ lru \in [maxSize : 1..MaxCacheSize, cache : {<<>>}]
    /\ lruOp = NoResult
    /\ lruUsed = <<>>
    /\ ScanIdle
    /\ TextIdle
    /\ ExtIdle
    /\ MatchIdle
    /\ ServiceIdle
    /\ ToolIdle
    /\ FetchIdle

LruRest ==
    UNCHANGED <<scanVars, textVars, extVars, matchVars, serviceVars, toolVars, fetchVars>>

\* the history of uses after a successful get or set of the key
Used(key) == Append(SelectSeq(lruUsed, LAMBDA k : k # key), key)

CacheSet(key, value) ==
    /\ lru' = [lru EXCEPT !.cache = LRUSet(lru.cache, lru.maxSize, key, value)]
    /\ lruOp' = [by |-> "set", key |-> key, result |-> LRUHas(lru.cache, key)]
    /\ lruUsed' = Used(key)
    /\ LruRest

CacheGet(key) ==
    /\ lru' = [lru EXCEPT !.cache = LRUGet(lru.cache, key)]
    /\ lruOp' = [by |-> "get", key |-> key,
                 result |-> IF LRUHas(lru.cache, key)
                            THEN <<LRUValue(lru.cache, key)>> ELSE <<>>]
    /\ lruUsed' = IF LRUHas(lru.cache, key) THEN Used(key) ELSE lruUsed
    /\ LruRest

CacheHas(key) ==
    /\ lruOp' = [by |-> "has", key |-> key, result |-> LRUHas(lru.cache, key)]
    /\ UNCHANGED <<lru, lruUsed>>
    /\ LruRest

\* get size()
CacheSize ==
    /\ lruOp' = [by |-> "size", key |-> 0, result |-> Len(lru.cache)]
    /\ UNCHANGED <<lru, lruUsed>>
    /\ LruRest

\* stats()
CacheStats ==
    /\ lruOp' = [by |-> "stats", key |-> 0,
                 result |-> [size |-> Len(lru.cache), maxSize |-> lru.maxSize,
                             keys |-> [k \in 1..Len(lru.cache) |-> lru.cache[k].key]]]
    /\ UNCHANGED <<lru, lruUsed>>
    /\ LruRest

CacheDelete(key) ==
    /\ lru' = [lru EXCEPT !.cache = LRUDelete(lru.cache, key)]
    /\ lruOp' = [by |-> "delete", key |-> key, result |-> LRUHas(lru.cache, key)]
    /\ UNCHANGED lruUsed
    /\ LruRest

CacheClear ==
    /\ lru' = [lru EXCEPT !.cache = <<>>]
    /\ lruOp' = [by |-> "clear", key |-> 0, result |-> FALSE]
    /\ UNCHANGED lruUsed
    /\ LruRest

NextLru ==
    \/ \E key \in LruKeys, value \in LruValues : CacheSet(key, value)
    \/ \E key \in LruKeys : CacheGet(key) \/ CacheHas(key) \/ CacheDelete(key)
    \/ CacheSize
    \/ CacheStats
    \/ CacheClear

SpecLru == InitLru /\ [][NextLru]_vars

KeysOf(cache) == {cache[k].key : k \in 1..Len(cache)}

\* C20: with maxSize >= 1 no operation leaves more than maxSize entries (one
\* per key), and a set of a key that is present keeps every other entry.
C20_BoundedAndResetKeepsOthers ==
    [][/\ Len(lru'.cache) <= lru'.maxSize
       /\ Cardinality(KeysOf(lru'.cache)) = Len(lru'.cache)
       /\ (lruOp'.by = "set" /\ LRUHas(lru.cache, lruOp'.key)) =>
              /\ KeysOf(lru'.cache) = KeysOf(lru.cache)
              /\ \A k \in KeysOf(lru.cache) \ {lruOp'.key} :
                     LRUValue(lru'.cache, k) = LRUValue(lru.cache, k)]_vars

\* a full cache after a set of its oldest key: both keys are still there,
\* the other one now the oldest
C20_Witness ==
    /\ lru.maxSize = 2
    /\ lruOp = [by |-> "set", key |-> 1, result |-> TRUE]
    /\ lru.cache = <<[key |-> 2, value |-> "a"], [key |-> 1, value |-> "b"]>>

\* place of the key's last successful get or set in the history of uses
LastUse(key) == CHOOSE k \in 1..Len(lruUsed) : lruUsed[k] = key

\* the entry of the cache whose last successful get or set is the oldest
LeastRecentlyUsed(cache) ==
    CHOOSE key \in KeysOf(cache) :
        \A other \in KeysOf(cache) : LastUse(key) <= LastUse(other)

\* the entries other than the key's, in their order
Others(cache, key) == SelectSeq(cache, LAMBDA e : e.key # key)

\* C21: a set of a new key into a full cache evicts exactly the entry whose
\* last successful get or set is the oldest; a get hit and every set put the
\* key in the newest place and keep the order of the entries that stay; has,
\* size and stats leave the cache as it is.
C21_EvictsLeastRecentlyUsed ==
    [][/\ (/\ lruOp'.by = "set"
           /\ ~LRUHas(lru.cache, lruOp'.key)
           /\ Len(lru.cache) = lru.maxSize) =>
              /\ KeysOf(lru.cache) \ KeysOf(lru'.cache) =
                     {LeastRecentlyUsed(lru.cache)}
              /\ Others(lru'.cache, lruOp'.key) =
                     Others(lru.cache, LeastRecentlyUsed(lru.cache))
       /\ (\/ lruOp'.by = "set"
           \/ lruOp'.by = "get" /\ LRUHas(lru.cache, lruOp'.key)) =>
              /\ lru'.cache[Len(lru'.cache)].key = lruOp'.key
              /\ \E from \in 0..Len(lru.cache) :
                     Others(lru'.cache, lruOp'.key) =
                         SubSeq(Others(lru.cache, lruOp'.key), from + 1,
                                Len(Others(lru.cache, lruOp'.key)))
       /\ lruOp'.by \in {"has", "size", "stats"} => lru'.cache = lru.cache
       /\ lruOp'.by = "get" /\ ~LRUHas(lru.cache, lruOp'.key) =>
              lru'.cache = lru.cache]_vars

\* a full cache of keys 1, 2 after get(1) and set(3, ...): the entry evicted
\* is 2, the older insertion 1 stays because of its later get
C21_Witness ==
    /\ lru.maxSize = 2
    /\ lruOp = [by |-> "set", key |-> 3, result |-> FALSE]
    /\ lruUsed = <<2, 1, 3>>
    /\ KeysOf(lru.cache) = {1, 3}
    /\ lru.cache[1].key = 1

-----------------------------------------------------------------------------
(* Specification SpecFetch: one call of fetchFromMultipleSources (utils      *)
(* fetch.ts): a request per source, Promise.any over them, the shared abort  *)
(* signal, and the timer of fetchWithTimeout.                                *)

\* the bodies a source may deliver
FetchTexts == {"<rfc/>", "<html>"}

\* the status of a response
HttpStatuses == {"200", "404"}

\* response.ok
ResponseOk(status) == status = "200"

\* validate, as fetchRFCXML passes it
validate(text) == Includes(text, "<?xml") \/ Includes(text, "<rfc")

\* what fetch and response.text() reject with when the signal is aborted
AbortError == [name |-> "AbortError", message |-> "This operation was aborted"]

\* what fetch and response.text() reject with when the connection breaks
NetworkError == [name |-> "TypeError", message |-> "fetch failed"]

\* the states of a per-source promise: waiting for the response, reading
\* its body, or settled
Fetching == [at |-> "fetching", timer |-> "armed"]
Reading == [at |-> "reading", timer |-> "cleared"]
Fulfilled(text, name) ==
    [at |-> "fulfilled", timer |-> "cleared",
     value |-> [text |-> text, source |-> name]]

\* regression: the source name is left out of the error
SourceFailureUnnamed(name, error) ==
    [at |-> "rejected", timer |-> "cleared", error |-> error]

\* the catch of the per-source promise: an AbortError is rethrown as it is,
\* every other error with the source name in front
SourceFailure(name, error) ==
    [at |-> "rejected", timer |-> "cleared",
     error |-> IF error.name = "AbortError" THEN error
               ELSE [name |-> "Error",
                     message |-> "[" \o name \o "] " \o error.message]]

\* regression: no request counts as in flight
InFlightNever(promise) == FALSE

\* a request the abort signal can still cancel
InFlight(promise) == promise.at \in {"fetching", "reading"}

\* Promise.any after one of the promises has settled: the first fulfilment
\* wins, the last rejection rejects with the errors in the order of the sources
PromiseAny(any, promises, k) ==
    IF any.state # "pending" THEN any
    ELSE IF promises[k].at = "fulfilled"
    THEN [state |-> "fulfilled", value |-> promises[k].value]
    ELSE IF \A j \in 1..Len(promises) : promises[j].at = "rejected"
    THEN [state |-> "rejected",
          errors |-> [j \in 1..Len(promises) |-> promises[j].error]]
    ELSE any

\* fetchFromMultipleSources(sources, { validate }): every request is started
InitFetch ==
    /\ fetchSources \in {SubSeq(XmlSourceNames, 1, n) : n \in 0..MaxSources}
    /\ fetchPromises = [k \in 1..Len(fetchSources) |-> Fetching]
    /\ anyPromise = IF Len(fetchSources) = 0
                    THEN [state |-> "rejected", errors |-> <<>>]
                    ELSE [state |-> "pending"]
    /\ signalAborted = FALSE
    /\ fetchCall = [state |-> "pending"]
    /\ timeoutElapsed = {}
    /\ ScanIdle
    /\ TextIdle
    /\ ExtIdle
    /\ MatchIdle
    /\ ServiceIdle
    /\ ToolIdle
    /\ LruIdle

FetchRest ==
    UNCHANGED <<scanVars, textVars, extVars, matchVars, serviceVars, toolVars,
                lruVars>>

\* the per-source promise k moves on
SourceStep(k, promise) ==
    /\ fetchPromises' = [fetchPromises EXCEPT ![k] = promise]
    /\ anyPromise' = PromiseAny(anyPromise, fetchPromises', k)
    /\ UNCHANGED <<fetchSources, signalAborted, fetchCall, timeoutElapsed>>
    /\ FetchRest

\* fetch resolves with the response: the timer is cleared; a response that
\* is not ok fails the source, an ok one is read
Respond(k, status) ==
    /\ fetchPromises[k].at = "fetching"
    /\ SourceStep(k, IF ResponseOk(status) THEN Reading
                     ELSE SourceFailure(fetchSources[k],
                              [name |-> "Error", message |-> "HTTP " \o status]))

\* fetch rejects: the connection could not be made
FetchFails(k) ==
    /\ fetchPromises[k].at = "fetching"
    /\ SourceStep(k, SourceFailure(fetchSources[k], NetworkError))

\* response.text() resolves: the body is validated
BodyArrives(k, text) ==
    /\ fetchPromises[k].at = "reading"
    /\ SourceStep(k, IF validate(text) THEN Fulfilled(text, fetchSources[k])
                     ELSE SourceFailure(fetchSources[k],
                              [name |-> "Error", message |-> "Validation failed"]))

\* response.text() rejects: the connection broke
BodyFails(k) ==
    /\ fetchPromises[k].at = "reading"
    /\ SourceStep(k, SourceFailure(fetchSources[k], NetworkError))

\* the timeout period of request k passes: its timer, unless cleared, aborts
\* the request
TimeoutElapses(k) ==
    /\ k \notin timeoutElapsed
    /\ timeoutElapsed' = timeoutElapsed \cup {k}
    /\ fetchPromises' =
           IF fetchPromises[k].timer = "armed"
           THEN [fetchPromises EXCEPT
                    ![k] = SourceFailure(fetchSources[k], AbortError)]
           ELSE fetchPromises
    /\ anyPromise' = PromiseAny(anyPromise, fetchPromises', k)
    /\ UNCHANGED <<fetchSources, signalAborted, fetchCall>>
    /\ FetchRest

\* the errors of an AggregateError as one message
AllFailedMessage(errors) ==
    "All sources failed: "
    \o Join([k \in 1..Len(errors) |-> errors[k].message], "; ")

\* after await Promise.any: controller.abort() cancels what is in flight,
\* then the call returns the result or throws the combined error
SettleCall ==
    /\ fetchCall.state = "pending"
    /\ anyPromise.state # "pending"
    /\ signalAborted' = TRUE
    /\ fetchPromises' =
           [k \in 1..Len(fetchPromises) |->
               IF InFlight(fetchPromises[k])
               THEN SourceFailure(fetchSources[k], AbortError)
               ELSE fetchPromises[k]]
    /\ fetchCall' =
           IF anyPromise.state = "fulfilled"
           THEN [state |-> "resolved", result |-> anyPromise.value]
           ELSE [state |-> "rejected",
                 message |-> AllFailedMessage(anyPromise.errors)]
    /\ UNCHANGED <<fetchSources, anyPromise, timeoutElapsed>>
    /\ FetchRest

NextFetch ==
    \/ \E k \in 1..Len(fetchSources), status \in HttpStatuses : Respond(k, status)
    \/ \E k \in 1..Len(fetchSources) : FetchFails(k)
    \/ \E k \in 1..Len(fetchSources), text \in FetchTexts : BodyArrives(k, text)
    \/ \E k \in 1..Len(fetchSources) : BodyFails(k)
    \/ \E k \in 1..Len(fetchSources) : TimeoutElapses(k)
    \/ SettleCall

SpecFetch == InitFetch /\ [][NextFetch]_vars

\* the continuation of the await runs once Promise.any has settled
SpecFetchLive == SpecFetch /\ WF_vars(SettleCall)

SourceIndexes == 1..Len(fetchSources)

\* source k returned an ok response with this body, and the body is valid
Succeeded(k, text) ==
    /\ fetchPromises[k].at = "fulfilled"
    /\ fetchPromises[k].value.text = text
    /\ Includes(text, "<?xml") \/ Includes(text, "<rfc")

\* C22: the call resolves with {text, source} only if that source delivered
\* the text and it is valid; it never rejects while a source has succeeded,
\* and resolves once one has; it rejects only when every source has failed,
\* with "All sources failed: " followed by the failures of all sources, the
\* failures other than a timeout under the name of their source.
C22_FirstSuccessWins ==
    /\ [](fetchCall.state = "resolved" =>
            \E k \in SourceIndexes :
               /\ fetchCall.result.source = fetchSources[k]
               /\ Succeeded(k, fetchCall.result.text))
    /\ []((\E k \in SourceIndexes : fetchPromises[k].at = "fulfilled") =>
              fetchCall.state # "rejected")
    /\ ((\E k \in SourceIndexes : fetchPromises[k].at = "fulfilled")
            ~> fetchCall.state = "resolved")
    /\ [](fetchCall.state = "rejected" =>
            /\ StartsWith(fetchCall.message, "All sources failed: ")
            /\ \A k \in SourceIndexes :
                  /\ fetchPromises[k].at = "rejected"
                  /\ Includes(fetchCall.message, fetchPromises[k].error.message)
                  /\ \/ fetchPromises[k].error = AbortError
                     \/ StartsWith(fetchPromises[k].error.message,
                                   "[" \o fetchSources[k] \o "] "))

\* the first source answered 404, the second delivered the document: the call
\* resolved with the second
C22_Witness ==
    /\ Len(fetchSources) = 2
    /\ fetchPromises[1].at = "rejected"
    /\ fetchPromises[1].error.message = "[rfcEditor] HTTP 404"
    /\ fetchCall = [state |-> "resolved",
                    result |-> [text |-> "<rfc/>", source |-> "ietfTools"]]

\* C23: once the call has settled the shared signal is aborted and no request
\* is waiting for its response or its body any more; from then on neither the
\* requests nor the result change, and the result of a resolved call is the
\* first fulfilment, whatever was delivered after it.
C23_SettledCallLeavesNothingPending ==
    /\ [](fetchCall.state # "pending" =>
            /\ signalAborted
            /\ \A k \in SourceIndexes :
                  fetchPromises[k].at \in {"fulfilled", "rejected"})
    /\ [](fetchCall.state = "resolved" =>
            /\ anyPromise.state = "fulfilled"
            /\ fetchCall.result = anyPromise.value)
    /\ [][/\ anyPromise.state # "pending" => anyPromise' = anyPromise
          /\ fetchCall.state # "pending" =>
                 /\ fetchCall' = fetchCall
                 /\ fetchPromises' = fetchPromises]_vars

\* the first source won while the second was still waiting for its response,
\* with its timeout not yet passed: the second request was cancelled
C23_Witness ==
    /\ Len(fetchSources) = 2
    /\ fetchCall = [state |-> "resolved",
                    result |-> [text |-> "<rfc/>", source |-> "rfcEditor"]]
    /\ signalAborted
    /\ fetchPromises[2].at = "rejected"
    /\ fetchPromises[2].error = AbortError
    /\ timeoutElapsed = {}

\* C24: a request whose timeout period has passed is not waiting any more,
\* neither for its response nor for the body; when the period of every
\* request has passed, Promise.any has settled (and the call settles with it).
C24_TimeoutBoundsWholeResponse ==
    /\ \A k \in timeoutElapsed :
          fetchPromises[k].at \in {"fulfilled", "rejected"}
    /\ timeoutElapsed = SourceIndexes => anyPromise.state # "pending"

-----------------------------------------------------------------------------
(* Specification SpecLevel: detectConflicts over statements that carry a    *)
(* requirement level.                                                       *)

ClientMustNotClose ==
    ParsedReq(8, "MUST NOT", "The client MUST NOT close the connection.")

ClientMaskingRequired ==
    ParsedReq(9, "REQUIRED", "Masking by the client is REQUIRED.")

LevelReqPool ==
    { ClientMustMask, ClientMustReject, ClientShouldClose, ClientMustNotClose,
      ClientMaskingRequired, ServerShallNotAccept }

LevelStatements ==
    { "The client MAY mask frames",
      "Client MAY mask",
      "It is OPTIONAL for the client to mask frames",
      "The client SHOULD NOT mask frames sent to the server",
      "The client SHOULD NOT mask large binary payloads",
      "The client SHOULD close idle connections quickly today",
      "The client is RECOMMENDED to close the connection",
      "Masking frames is NOT RECOMMENDED for the client",
      "The client MUST mask frames",
      "The client MUST NOT mask frames",
      "The client masks all frames before sending" }

InitLevel ==
    /\ stmtIn \in LevelStatements
    /\ reqsIn \in SeqsUpTo(LevelReqPool, MaxReqs)
    /\ matchOut = NoResult
    /\ ScanIdle
    /\ TextIdle
    /\ ExtIdle
    /\ ServiceIdle
    /\ ToolIdle
    /\ LruIdle
    /\ FetchIdle

NextLevel == DetectConflicts

SpecLevel == InitLevel /\ [][NextLevel]_vars

\* the levels a statement level conflicts with
ConflictsWith(level) ==
    IF level = "MAY" THEN {"MUST", "MUST NOT", "SHALL", "SHALL NOT"}
    ELSE IF level = "OPTIONAL"
    THEN {"MUST", "MUST NOT", "SHALL", "SHALL NOT", "REQUIRED"}
    ELSE IF level \in {"SHOULD", "RECOMMENDED"} THEN {"MUST NOT", "SHALL NOT"}
    ELSE IF level \in {"SHOULD NOT", "NOT RECOMMENDED"}
    THEN {"MUST", "SHALL", "REQUIRED"}
    ELSE {}

\* the distinct keywords of the statement
DistinctKeywords ==
    {extractKeywords(stmtIn)[k].keyword : k \in 1..Len(extractKeywords(stmtIn))}

\* the conflicts reported for a requirement, all and those by level
ConflictsFor(req) == SelectSeq(matchOut.conflicts, LAMBDA c : c.requirement = req)
LevelConflictsFor(req) ==
    SelectSeq(ConflictsFor(req), LAMBDA c : StartsWith(c.reason, "Statement uses \""))

\* C25: for a requirement of the statement's subject a level conflict is
\* reported exactly when the requirement's level is in the conflicts-with set
\* of the statement's level and either two distinct statement keywords occur
\* in the requirement text or the statement has at most three; a requirement
\* is reported as often as it is in the list, at most.
C25_LevelPairRule ==
    matchOut.by = "detectConflicts" =>
        \A j \in 1..Len(reqsIn) :
            /\ ReqSubject(reqsIn[j]) = extractSubject(stmtIn)
               /\ extractSubject(stmtIn) # "" =>
                  (LevelConflictsFor(reqsIn[j]) # <<>>) =
                     (/\ reqsIn[j].level
                            \in ConflictsWith(ExtractRequirementLevel(stmtIn))
                      /\ \/ Cardinality({w \in DistinctKeywords :
                                Includes(ToLowerCase(reqsIn[j].text), w)}) >= 2
                         \/ Cardinality(DistinctKeywords) <= 3)
            /\ Len(ConflictsFor(reqsIn[j]))
                  <= Cardinality({i \in 1..Len(reqsIn) : reqsIn[i] = reqsIn[j]})
            /\ \A c \in 1..Len(LevelConflictsFor(reqsIn[j])) :
                  /\ LevelConflictsFor(reqsIn[j])[c].statementLevel
                        = ExtractRequirementLevel(stmtIn)
                  /\ ExtractRequirementLevel(stmtIn)
                        \notin {"MUST", "MUST NOT", "REQUIRED", "SHALL", "SHALL NOT"}

\* a statement of six keywords against two MUST requirements of its subject:
\* the one whose text holds two of the keywords is reported, the one whose
\* text holds one is not
C25_Witness ==
    /\ stmtIn = "The client SHOULD NOT mask large binary payloads"
    /\ Len(extractKeywords(stmtIn)) = 6
    /\ reqsIn = <<ClientMustReject, ClientMustMask>>
    /\ matchOut.by = "detectConflicts"
    /\ matchOut.conflicts =
           <<NewConflict(ClientMustMask,
                 "Statement uses \"SHOULD NOT\" but requirement uses \"MUST\"",
                 "SHOULD NOT")>>

-----------------------------------------------------------------------------
(* Rejected header candidates of the plain-text parser (SpecText).         *)

\* the line matches the section-header pattern
CandidateLine(line) == MatchSectionHeader(Trim(line)).ok

\* the line opens a section
AcceptedLine(line) ==
    LET m == MatchSectionHeader(Trim(line))
    IN m.ok /\ isValidSectionHeader(StripTrailingDot(m.num), m.title)

RejectedLine(line) == CandidateLine(line) /\ ~AcceptedLine(line)

\* the position in the flat list of the section current at line i, 0 for none
CurrentAt(i) == Cardinality({j \in 1..(i - 1) : AcceptedLine(doc[j])})

\* the lines of the document that belong to the body of section n
BodyLines(n) ==
    SelectSeq([i \in 1..Len(doc) |->
                  IF CurrentAt(i) = n /\ ~AcceptedLine(doc[i])
                  THEN <<doc[i]>> ELSE <<>>],
              LAMBDA l : l # <<>>)

\* C26 as stated: every rejected candidate line, wherever it stands, is in
\* the body text of some section of the result.
C26_NoRejectedLineDiscarded ==
    parsed.by = "parseRFCText" =>
        \A i \in 1..Len(doc) :
            RejectedLine(doc[i]) =>
                \E n \in 1..Len(parsed.flat) : Includes(parsed.flat[n].body, doc[i])

\* C26, amended: a rejected candidate line that follows an accepted header is
\* kept in the body of the section current at that point: the body is the
\* lines between the header and the next accepted one, as they are, and the
\* line, trimmed, is in one of the section's blocks.
C26_RejectedLineKeptInCurrentSection ==
    parsed.by = "parseRFCText" =>
        /\ \A n \in 1..Len(parsed.flat) :
               parsed.flat[n].body =
                   JoinLines([k \in 1..Len(BodyLines(n)) |-> BodyLines(n)[k][1]])
        /\ \A i \in 1..Len(doc) :
               RejectedLine(doc[i]) /\ CurrentAt(i) > 0 =>
                   /\ CurrentAt(i) <= Len(parsed.flat)
                   /\ \E b \in 1..Len(parsed.flat[CurrentAt(i)].content) :
                          Includes(parsed.flat[CurrentAt(i)].content[b],
                                   Trim(doc[i]))

\* a rejected candidate before the first header is dropped, the two after it
\* are kept, the indented one without its indentation as the paragraph begins
\* with it
C26_Witness ==
    /\ parsed.by = "parseRFCText"
    /\ doc = <<"1 Introduction", "   404 Not Found", "1001 Connection refused">>
    /\ Len(parsed.flat) = 1
    /\ parsed.flat[1].body = "   404 Not Found\n1001 Connection refused"
    /\ parsed.flat[1].content = <<"404 Not Found\n1001 Connection refused">>

-----------------------------------------------------------------------------
(* Specification SpecOrganize: organizeSections on flat section lists.     *)

SectionNumbers == {"1", "1.1", "1.1.1", "2"}

FlatLists ==
    SeqsUpTo({[number |-> number, title |-> "Title", body |-> "", content |-> <<>>] :
                 number \in SectionNumbers}, MaxSections)

InitOrganize ==
    /\ toolIn \in [by : {"organizeSections"}, flatSections : FlatLists]
    /\ toolOut = NoResult
    /\ ScanIdle
    /\ TextIdle
    /\ ExtIdle
    /\ MatchIdle
    /\ ServiceIdle
    /\ LruIdle
    /\ FetchIdle

\* organizeSections(flatSections)
OrganizeSections ==
    /\ toolIn.by = "organizeSections"
    /\ toolOut = NoResult
    /\ toolOut' = [by |-> "organizeSections", flat |-> toolIn.flatSections,
                   root |-> organizeSections(toolIn.flatSections).root,
                   subs |-> organizeSections(toolIn.flatSections).subs]
    /\ UNCHANGED <<toolIn, scanVars, textVars, extVars, matchVars, serviceVars, lruVars, fetchVars>>

NextOrganize == OrganizeSections

SpecOrganize == InitOrganize /\ [][NextOrganize]_vars

\* the nearest section before n whose depth is smaller, 0 for none
NearestShallower(flat, n) ==
    LET before == {m \in 1..(n - 1) :
                      DottedDepth(flat[m].number) < DottedDepth(flat[n].number)}
    IN IF before = {} THEN 0 ELSE CHOOSE m \in before : \A k \in before : k <= m

\* how often n is in the list
Occurrences(list, n) == Cardinality({k \in 1..Len(list) : list[k] = n})

RECURSIVE SumOver(_, _)
SumOver(list, n) ==
    IF list = <<>> THEN 0 ELSE Occurrences(list[1], n) + SumOver(Tail(list), n)

\* the forest below the listed sections in pre-order
RECURSIVE Walk(_, _)
Walk(p, list) ==
    IF list = <<>> THEN <<>>
    ELSE <<list[1]>> \o Walk(p, p.subs[list[1]]) \o Walk(p, Tail(list))

\* C27: in the forest each section is a child of the nearest section before
\* it with a smaller depth, a root if there is none; each section is in the
\* forest once, and the pre-order of the forest is the order of the input.
C27_NearestShallowerParent ==
    toolOut.by = "organizeSections" =>
        /\ \A n \in 1..Len(toolOut.flat) :
               /\ ParentOf(toolOut, n) = NearestShallower(toolOut.flat, n)
               /\ (NearestShallower(toolOut.flat, n) = 0) =
                      (n \in SeqRange(toolOut.root))
               /\ Occurrences(toolOut.root, n) + SumOver(toolOut.subs, n) = 1
        /\ Walk(toolOut, toolOut.root) = [n \in 1..Len(toolOut.flat) |-> n]

\* depths 1, 3, 2, 1: the section of depth 3 and the one of depth 2 are both
\* children of the first, the last is a second root
C27_Witness ==
    /\ toolOut.by = "organizeSections"
    /\ [n \in 1..Len(toolOut.flat) |-> toolOut.flat[n].number]
           = <<"1", "1.1.1", "1.1", "2">>
    /\ toolOut.root = <<1, 4>>
    /\ toolOut.subs = <<<<2, 3>>, <<>>, <<>>, <<>>>>

-----------------------------------------------------------------------------
(* Specification SpecLruSet: LRUCache.set statement by statement, for every *)
(* maxSize from 0.                                                          *)

\* new LRUCache({ maxSize })
InitLruSet ==
    /\ lru \in [maxSize : 0..MaxCacheSize, cache : {<<>>}]
    /\ lruOp = NoResult
    /\ lruUsed = <<>>
    /\ ScanIdle
    /\ TextIdle
    /\ ExtIdle
    /\ MatchIdle
    /\ ServiceIdle
    /\ ToolIdle
    /\ FetchIdle

\* set(key, value) is entered: an entry of the key is deleted
SetBegin(key, value) ==
    /\ lruOp.by # "setting"
    /\ lru' = [lru EXCEPT !.cache = LRUDelete(lru.cache, key)]
    /\ lruOp' = [by |-> "setting", key |-> key, value |-> value]
    /\ UNCHANGED lruUsed
    /\ LruRest

\* one turn of while (this.cache.size >= this.maxSize): the oldest key, if
\* there is one, is deleted
SetEvict ==
    /\ lruOp.by = "setting"
    /\ Len(lru.cache) >= lru.maxSize
    /\ lru' = [lru EXCEPT !.cache = IF Len(lru.cache) > 0 THEN Tail(lru.cache)
                                   ELSE lru.cache]
    /\ UNCHANGED <<lruOp, lruUsed>>
    /\ LruRest

\* the loop is left: this.cache.set(key, value), and set returns
SetStore ==
    /\ lruOp.by = "setting"
    /\ Len(lru.cache) < lru.maxSize
    /\ lru' = [lru EXCEPT !.cache = Append(lru.cache, [key |-> lruOp.key,
                                                      value |-> lruOp.value])]
    /\ lruOp' = [by |-> "set", key |-> lruOp.key, result |-> FALSE]
    /\ lruUsed' = Used(lruOp.key)
    /\ LruRest

NextLruSet ==
    \/ \E key \in LruKeys, value \in LruValues : SetBegin(key, value)
    \/ SetEvict
    \/ SetStore
    \/ \E key \in LruKeys : lruOp.by # "setting" /\ CacheGet(key)
    \/ \E key \in LruKeys : lruOp.by # "setting" /\ CacheDelete(key)

\* the statements of a call that has been entered are executed
SpecLruSet ==
    InitLruSet /\ [][NextLruSet]_vars /\ WF_vars(SetEvict) /\ WF_vars(SetStore)

\* C28: every call of set returns.
C28_SetTerminates == (lruOp.by = "setting") ~> (lruOp.by = "set")

-----------------------------------------------------------------------------
(* Failed calls and the parse cache (SpecService).                         *)

\* C29: no step of a call that is on its way to an error, or ends in one,
\* changes the parse cache; the cache holds parse results only, each under
\* its own number; and a call for a number that neither the parse cache nor
\* the XML cache holds starts the XML fetch.
C29_FailureLeavesParseCache ==
    [][/\ \A c \in Callers :
             /\ (/\ calls'[c] # calls[c]
                 /\ calls'[c].pc \in {"xmlFetch", "textFetch", "failed"}) =>
                    parseCache' = parseCache
             /\ (/\ calls[c].pc = "idle"
                 /\ calls'[c].pc # "idle"
                 /\ ~LRUHas(parseCache, calls'[c].rfc)
                 /\ ~LRUHas(xmlCache, calls'[c].rfc)) =>
                    /\ calls'[c].pc = "xmlFetch"
                    /\ <<"xml", calls'[c].rfc>> \in fetchStarted'
       /\ \A k \in 1..Len(parseCache') :
             parseCache'[k].value \in
                 {XmlResult(XmlOf(parseCache'[k].key)),
                  TextResult(TextOf(parseCache'[k].key), parseCache'[k].key)}]_vars

\* with RFC 8650 in the parse cache, a call for 6455 has failed on XML and on
\* text: the cache holds 8650 alone, as before
C29_Witness ==
    \E c \in Callers :
        /\ calls[c].pc = "failed"
        /\ calls[c].rfc = 6455
        /\ calls[c].textError # NoError
        /\ \A d \in Callers \ {c} : calls[d].pc = "idle"
        /\ Len(parseCache) = 1
        /\ parseCache[1].key = 8650

-----------------------------------------------------------------------------
(* Specification SpecDefs: parseRFCText on documents with definitions.     *)

DefLines ==
    { "1 Introduction", "2. Terms", "1001 Connection refused",
      "Frame - A unit of data", "   Mask: a 32-bit key", "Opcode - 4 bits" }

InitDefs ==
    /\ doc \in SeqsUpTo(DefLines, MaxLines)
    /\ parsed = NoResult
    /\ ScanIdle
    /\ ExtIdle
    /\ MatchIdle
    /\ ServiceIdle
    /\ ToolIdle
    /\ LruIdle
    /\ FetchIdle

SpecDefs == InitDefs /\ [][NextText]_vars

\* the number of the section current at line i, "" before the first section
SectionAt(i) ==
    IF CurrentAt(i) = 0 THEN "" ELSE parsed.flat[CurrentAt(i)].number

\* C30: the section of every extracted definition is the number of the last
\* accepted section header before the defining line, a section of the
\* returned tree, or "" when no section precedes the line; the number of a
\* rejected header candidate is never a definition's section.
C30_DefinitionSectionIsAcceptedHeader ==
    parsed.by = "parseRFCText" =>
        \A k \in 1..Len(parsed.definitions) :
            /\ CurrentAt(parsed.definitions[k].line) <= Len(parsed.flat)
            /\ parsed.definitions[k].section =
                   SectionAt(parsed.definitions[k].line)
            /\ \A i \in 1..Len(doc) :
                   RejectedLine(doc[i]) =>
                       parsed.definitions[k].section
                           # StripTrailingDot(MatchSectionHeader(Trim(doc[i])).num)

====
